---- MODULE Spec2Model ----
(***************************************************************************)
(* Model of the SmartHomework exam and grading path.                       *)
(*                                                                         *)
(*   - gradeSubmission (src/services/geminiService.ts): the collaborator   *)
(*     call, cleanJsonText, JSON.parse and the reduction of the raw        *)
(*     assessments into a GradingResult.                                   *)
(*   - ResultAnalysis (src/unnamed/part_000): the results screen that      *)
(*     issues the grading call, with its loading / error / retry states.   *)
(*   - StudentExam (src/unnamed/part_000): the exam screen, with its       *)
(*     Answer Store, navigation, countdown timer and submit flow, and the  *)
(*     App handler that receives the submission (src/App.tsx).             *)
(*                                                                         *)
(* JavaScript values are tagged records, so that truthiness (the `||`      *)
(* defaults of the code) is computed and not assumed.  A score is held in  *)
(* tenths: the code rounds it to one decimal place, so 5.0 is 50 here.     *)
(***************************************************************************)
EXTENDS Integers, Sequences, FiniteSets, TLC

VARIABLES
    questions,      \* assignment.questions, the ordered question list
    reply,          \* what the collaborator call of gradeSubmission produces
    outcome,        \* what the last gradeSubmission run returned or threw
    previous,       \* what the run before the last one returned or threw
    runs,           \* number of gradeSubmission runs so far
    feedbackMap,    \* the value of the local feedbackMap when the last run ended
    earnedScore,    \* the value of the local earnedScore when the last run ended
    result,         \* ResultAnalysis state: GradingResult or null
    loading,        \* ResultAnalysis state: loading flag
    errorMsg,       \* ResultAnalysis state: error message or null
    emailStatus,    \* ResultAnalysis state: 'idle' | 'sending' | 'success'
    pending,        \* gradeSubmission promises of the screen not yet settled
    effectDone,     \* whether the mount effect of ResultAnalysis has run
    emailTimers,    \* armed setTimeout callbacks of the email simulation
    teacherEmail,   \* ResultAnalysis prop: the teacher's email address
    lastEvent,      \* the handler that ran last on the results screen
    attempts,       \* number of grading calls the results screen has issued
    answers,        \* StudentExam state: the Answer Store, question id -> answer
    isSubmitting,   \* StudentExam state: submitting flag
    currentQuestionIndex,   \* StudentExam state: 0-based index of the question shown
    isReviewing,    \* StudentExam state: review-mode flag
    showSubmitModal,    \* StudentExam state: the confirmation summary is open
    showSidebar,    \* StudentExam state: the question list is open (small screens)
    timeLeft,       \* StudentExam state: remaining seconds
    timerActive,    \* the setInterval of the timer effect is scheduled
    deliveries,     \* armed setTimeout callbacks of handleConfirmSubmit, each
                    \* with the answers its closure holds
    currentView,    \* App state: the view shown
    submission,     \* App state: the delivered StudentSubmission or null
    resultRow,      \* what ResultAnalysis shows for the answer of a question
    reviewRow,      \* what the review list of StudentExam shows for it
    dashLoading,    \* TeacherDashboard state: loading
    typeConfigs,    \* TeacherDashboard state: selected flag and count per type
    generatedQuestions, \* TeacherDashboard state: the previewed questions
    generating,     \* calls of generateAssignment that have not settled
    lastAlert,      \* the last alert the dashboard has raised
    assignment,     \* App state: the assignment or null
    studentInfo,    \* App state: the student's name and class or null
    isAdmin         \* App state: teacher mode

gradeVars == <<questions, reply, outcome, previous, runs, feedbackMap, earnedScore>>
resultVars == <<result, loading, errorMsg, emailStatus, pending, effectDone,
                emailTimers, teacherEmail, lastEvent, attempts>>
examVars == <<answers, isSubmitting, currentQuestionIndex, isReviewing,
              showSubmitModal, showSidebar, timeLeft, timerActive, deliveries>>
appVars == <<currentView, submission>>
displayVars == <<resultRow, reviewRow>>
teacherVars == <<dashLoading, typeConfigs, generatedQuestions, generating,
                 lastAlert>>
adminVars == <<assignment, studentInfo, isAdmin>>
sessionVars == <<examVars, appVars, displayVars, teacherVars, adminVars>>
vars == <<gradeVars, resultVars, sessionVars>>

----------------------------------------------------------------------------
(* Bounds of the model.                                                    *)

\* questions of an assignment graded with one assessment per question
MaxQuestions == 4
\* questions of an assignment graded with an arbitrary assessment list
MaxLooseQuestions == 2
\* entries of an arbitrary assessment list
MaxAssessments == 2
\* lexemes of a response text
MaxTextLen == 4
\* gradeSubmission runs on one collaborator response
MaxRuns == 2
\* grading calls one results screen issues
MaxAttempts == 3

\* the longest exam, in questions
MaxExamQuestions == 3

\* the seconds of an exam session that SpecExam observes
MaxTicks == 2

\* the longest answer token, in characters
MaxTokenLen == 2

\* the longest question list the collaborator generates
MaxGenerated == 2

----------------------------------------------------------------------------
(* JavaScript values.                                                      *)

Undefined == [t |-> "undefined"]
Null == [t |-> "null"]
Str(s) == [t |-> "string", v |-> s]
Num(n) == [t |-> "number", v |-> n]
Arr(s) == [t |-> "array", v |-> s]

\* ToBoolean, as the `||` and `!` operators of the code apply it
Truthy(x) ==
    CASE x.t = "undefined" -> FALSE
      [] x.t = "null" -> FALSE
      [] x.t = "string" -> x.v # ""
      [] x.t = "number" -> x.v # 0
      [] OTHER -> TRUE

\* a || b
OrElse(a, b) == IF Truthy(a) THEN a ELSE b

----------------------------------------------------------------------------
(* The assignment.                                                         *)

\* generateUniqueId: the i-th question gets an id no other question has
QId(i) == "q_" \o ToString(i)

\* an id that generateUniqueId gave to no question of the assignment
UnknownId == "q_x"

\* the questions of an assignment with n questions
Questions(n) == [i \in 1..n |-> [id |-> QId(i)]]

\* assignment.questions.map(q => q.id), as a set
QuestionIds(qs) == {qs[i].id : i \in 1..Len(qs)}

----------------------------------------------------------------------------
(* The response text: a sequence of lexemes.                                *)
(*   lbrace, rbrace  the braces of the outermost JSON object               *)
(*   m               the member list of that object (reply.members)        *)
(*   n               the JSON literal null                                 *)
(*   w               prose, which is not JSON                              *)
(*   f               a markdown fence, with or without the json tag        *)
(* Whitespace is left out: JSON.parse ignores it, so trim() changes        *)
(* nothing that the parse depends on.                                      *)

Lexemes == {"{", "}", "m", "n", "w", "f"}

\* "{}"
EmptyObjectText == <<"{", "}">>

\* the text of a response that is the bare JSON object
ObjectText == <<"{", "m", "}">>

\* String.prototype.indexOf: 0-based position of the first c, -1 if none
IndexOf(text, c) ==
    IF \E i \in 1..Len(text) : text[i] = c
    THEN (CHOOSE i \in 1..Len(text) :
             text[i] = c /\ \A j \in 1..(i - 1) : text[j] # c) - 1
    ELSE -1

\* String.prototype.lastIndexOf: 0-based position of the last c, -1 if none
LastIndexOf(text, c) ==
    IF \E i \in 1..Len(text) : text[i] = c
    THEN (CHOOSE i \in 1..Len(text) :
             text[i] = c /\ \A j \in (i + 1)..Len(text) : text[j] # c) - 1
    ELSE -1

\* cleanJsonText: the outermost { ... } span, else the text without fences
cleanJsonText(text) ==
    IF text = <<>> THEN EmptyObjectText
    ELSE LET start == IndexOf(text, "{")
             end == LastIndexOf(text, "}")
         IN  IF start # -1 /\ end # -1 /\ end > start
             THEN SubSeq(text, start + 1, end + 1)
             ELSE SelectSeq(text, LAMBDA c : c # "f")

\* JSON.parse: the parsed value, or a SyntaxError
JsonParse(text, members) ==
    IF text = EmptyObjectText
    THEN [ok |-> TRUE,
          value |-> [t |-> "object", assessments |-> Undefined,
                     overallComment |-> Undefined]]
    ELSE IF text = ObjectText
    THEN [ok |-> TRUE,
          value |-> [t |-> "object", assessments |-> members.assessments,
                     overallComment |-> members.overallComment]]
    ELSE IF text = <<"n">>
    THEN [ok |-> TRUE, value |-> Null]
    ELSE [ok |-> FALSE]

----------------------------------------------------------------------------
(* The collaborator's reply and the raw assessments.                       *)

\* one entry of data.assessments
Item(questionId, score, feedback) ==
    [t |-> "object", questionId |-> questionId, score |-> score,
     feedback |-> feedback]

\* the fields of the parsed object
Members(assessments, overallComment) ==
    [assessments |-> assessments, overallComment |-> overallComment]

\* ai.models.generateContent resolved with a response whose text is `text`
TextReply(text, members) == [kind |-> "text", text |-> text, members |-> members]

\* ai.models.generateContent rejected (network or format error)
ThrowReply ==
    [kind |-> "throw", text |-> Undefined, members |-> Members(Undefined, Undefined)]

\* response.text || "{}"
ResponseText(rep) ==
    IF rep.text.t = "undefined" \/ rep.text.v = <<>>
    THEN EmptyObjectText
    ELSE rep.text.v

----------------------------------------------------------------------------
(* gradeSubmission.                                                        *)

\* "Không có nhận xét."
NoCommentText == "Khong co nhan xet."

\* "Chưa có đánh giá (Lỗi hệ thống hoặc bỏ qua)."
NoAssessmentText == "Chua co danh gia (Loi he thong hoac bo qua)."

\* "Đã hoàn thành bài tập."
DefaultCommentText == "Da hoan thanh bai tap."

\* const feedbackMap: Record<string, string> = {}
NewFeedbackMap == [k \in {} |-> Undefined]

\* mutant of NewEarnedScore: the accumulator outlives the call
StaleEarnedScore == earnedScore

\* let earnedScore = 0
NewEarnedScore == 0

\* feedbackMap[key]
Get(fm, key) == IF key \in DOMAIN fm THEN fm[key] ELSE Undefined

\* feedbackMap[key] = value
Put(fm, key, value) ==
    [k \in DOMAIN fm \cup {key} |-> IF k = key THEN value ELSE fm[k]]

\* the decimal digits
DigitChars == <<"0", "1", "2", "3", "4", "5", "6", "7", "8", "9">>

RECURSIVE DigitsOf(_)
\* String(n) for an integer n >= 0, as a sequence of characters
DigitsOf(n) ==
    IF n < 10 THEN <<DigitChars[n + 1]>>
    ELSE DigitsOf(n \div 10) \o <<DigitChars[(n % 10) + 1]>>

\* the string an operand of + is converted to when the other is a string
ToText(x) == IF x.t = "number" THEN DigitsOf(x.v) ELSE x.v

\* a += b for numbers and strings of characters: the sum of two numbers,
\* the concatenation as soon as one operand is a string
PlusAssign(a, b) ==
    IF a.t = "number" /\ b.t = "number"
    THEN Num(a.v + b.v)
    ELSE [t |-> "text", v |-> ToText(a) \o ToText(b)]

\* the value of the digit c
DigitValue(c) == (CHOOSE d \in 1..10 : DigitChars[d] = c) - 1

RECURSIVE DecimalValue(_)
\* the number a sequence of digits denotes
DecimalValue(cs) ==
    IF cs = <<>> THEN 0
    ELSE 10 * DecimalValue(SubSeq(cs, 1, Len(cs) - 1)) + DigitValue(cs[Len(cs)])

\* the number a value is converted to by the operator /: the number itself,
\* 0 for the empty string, the value of a string of digits, NaN for a string
\* that holds another character
ToNumber(x) ==
    IF x.t = "number" THEN [nan |-> FALSE, v |-> x.v]
    ELSE IF \A i \in 1..Len(x.v) : \E d \in 1..10 : DigitChars[d] = x.v[i]
    THEN [nan |-> FALSE, v |-> DecimalValue(x.v)]
    ELSE [nan |-> TRUE]

\* parseFloat("NaN"): NaN, held as the one score below zero
NaN == -1

\* the local earnedScore as the variable of the model holds it: the number,
\* or the string it has become
Untagged(x) == IF x.t = "number" THEN x.v ELSE x

\* item.score || 0, for a score that is a number, a string of characters,
\* null or missing
ScoreOrZero(score) ==
    IF score.t = "text"
    THEN IF score.v = <<>> THEN Num(0) ELSE score
    ELSE OrElse(score, Num(0))

\* the body of assessments.forEach, for one item
RecordAssessment(item, acc) ==
    IF Truthy(item.questionId)
    THEN [feedbackMap |-> Put(acc.feedbackMap, item.questionId.v,
                              OrElse(item.feedback, Str(NoCommentText))),
          earnedScore |-> PlusAssign(acc.earnedScore, ScoreOrZero(item.score))]
    ELSE acc

RECURSIVE ForEachAssessment(_, _)
\* assessments.forEach(...)
ForEachAssessment(items, acc) ==
    IF items = <<>> THEN acc
    ELSE ForEachAssessment(Tail(items), RecordAssessment(Head(items), acc))

\* mutant of BackfillQuestion: the placeholder is written without the check
BackfillAlways(q, fm) == Put(fm, q.id, Str(NoAssessmentText))

\* the body of assignment.questions.forEach, for one question
BackfillQuestion(q, fm) ==
    IF ~Truthy(Get(fm, q.id)) THEN Put(fm, q.id, Str(NoAssessmentText)) ELSE fm

RECURSIVE BackfillMissing(_, _)
\* assignment.questions.forEach(...)
BackfillMissing(qs, fm) ==
    IF qs = <<>> THEN fm
    ELSE BackfillMissing(Tail(qs), BackfillQuestion(Head(qs), fm))

\* mutant of NormalizedScore: the score is cut to one decimal, not rounded
NormalizedScoreTruncated(earned, maxScore) ==
    IF maxScore > 0 THEN (100 * earned) \div maxScore ELSE 0

\* parseFloat(normalizedScore.toFixed(1)), in tenths.  toFixed rounds to the
\* nearest tenth, a tie upward; for the integer scores and question counts of
\* the model the double (earnedScore / maxScore) * 10 rounds as the exact
\* quotient does.
NormalizedScore(earned, maxScore) ==
    IF maxScore > 0
    THEN (200 * earned + maxScore) \div (2 * maxScore)
    ELSE 0

\* the score of the result for the local earnedScore: the division converts
\* a string to a number, and NaN stays NaN through toFixed and parseFloat
ScoreOf(earned, maxScore) ==
    IF maxScore > 0
    THEN IF ToNumber(earned).nan THEN NaN
         ELSE NormalizedScore(ToNumber(earned).v, maxScore)
    ELSE NormalizedScore(0, maxScore)

\* totalScore: 10
TotalScore == 10

\* throw new Error("AI Grading failed: ...")
GradingFailed == [kind |-> "error"]

\* the GradingResult returned
Returned(value) == [kind |-> "result", value |-> value]

\* no run yet
NoOutcome == [kind |-> "none"]

\* mutant of Catch: the error is swallowed and a default result returned
CatchReturnsDefault ==
    Returned([score |-> 0, totalScore |-> TotalScore, feedback |-> NewFeedbackMap,
              overallComment |-> Str(DefaultCommentText)])

\* what the catch block does with an error thrown in the try block
Catch == GradingFailed

\* mutant of AssessmentsOf: the list is read without the default
AssessmentsStrict(data) == data.assessments

\* const assessments = data.assessments || []
AssessmentsOf(data) == OrElse(data.assessments, Arr(<<>>))

\* the try block from `const feedbackMap` on: reduction, backfill, normalisation
Reduce(qs, data, fm0, es0) ==
    LET maxScore == Len(qs) * 10
        assessments == AssessmentsOf(data)
    IN  IF assessments.t # "array"
        THEN [outcome |-> Catch, declared |-> TRUE,
              feedbackMap |-> fm0, earnedScore |-> es0]
        ELSE IF \E i \in 1..Len(assessments.v) : assessments.v[i].t # "object"
        THEN LET k == CHOOSE i \in 1..Len(assessments.v) :
                          /\ assessments.v[i].t # "object"
                          /\ \A j \in 1..(i - 1) : assessments.v[j].t = "object"
                 acc == ForEachAssessment(SubSeq(assessments.v, 1, k - 1),
                            [feedbackMap |-> fm0, earnedScore |-> Num(es0)])
             IN  [outcome |-> Catch, declared |-> TRUE,
                  feedbackMap |-> acc.feedbackMap, earnedScore |-> Untagged(acc.earnedScore)]
        ELSE LET acc == ForEachAssessment(assessments.v,
                            [feedbackMap |-> fm0, earnedScore |-> Num(es0)])
                 fm == BackfillMissing(qs, acc.feedbackMap)
             IN  [outcome |-> Returned(
                      [score |-> ScoreOf(acc.earnedScore, maxScore),
                       totalScore |-> TotalScore,
                       feedback |-> fm,
                       overallComment |->
                           OrElse(data.overallComment, Str(DefaultCommentText))]),
                  declared |-> TRUE,
                  feedbackMap |-> fm, earnedScore |-> Untagged(acc.earnedScore)]

\* gradeSubmission, from the collaborator's reply on.  `declared` tells whether
\* the run got as far as declaring its locals.
GradeRun(qs, rep) ==
    IF rep.kind = "throw"
    THEN [outcome |-> Catch, declared |-> FALSE]
    ELSE LET parsed == JsonParse(cleanJsonText(ResponseText(rep)), rep.members)
         IN  IF ~parsed.ok
             THEN [outcome |-> Catch, declared |-> FALSE]
             ELSE IF parsed.value.t # "object"
             THEN [outcome |-> Catch, declared |-> TRUE,
                   feedbackMap |-> NewFeedbackMap, earnedScore |-> NewEarnedScore]
             ELSE Reduce(qs, parsed.value, NewFeedbackMap, NewEarnedScore)

\* gradeSubmission(assignment, submission): what the promise settles with
gradeSubmission(qs, rep) == GradeRun(qs, rep).outcome

----------------------------------------------------------------------------
(* The inputs of gradeSubmission that the model enumerates.                *)

\* the sequences over S of length at most k
SeqsUpTo(S, k) == UNION {[1..m -> S] : m \in 0..k}

\* the per-entry scores and feedback texts the collaborator is given to use
LooseScores == {Num(4), Num(10)}
LooseFeedback == {Str("A"), Str("B")}

\* the entries of an arbitrary assessment list for an n-question assignment:
\* known and unknown ids with every score and feedback, a zero score, and the
\* entries with an empty or missing field
LooseItems(n) ==
    {Item(Str(id), sc, fb) :
        id \in {QId(i) : i \in 1..n} \cup {UnknownId},
        sc \in LooseScores, fb \in LooseFeedback}
    \cup {Item(Str(QId(1)), Num(0), Str("A")),
          Item(Str(""), Num(10), Str("A")),
          Item(Undefined, Num(10), Str("A")),
          Item(Str(QId(1)), Undefined, Str("")),
          Item(Str(QId(1)), Num(10), Undefined)}

\* the collaborator answers with the bare object and any assessment list
LooseInputs ==
    \E n \in 0..MaxLooseQuestions :
    \E items \in SeqsUpTo(LooseItems(MaxLooseQuestions), MaxAssessments) :
    \E oc \in {Undefined, Str("C")} :
        /\ questions = Questions(n)
        /\ reply = TextReply(Str(ObjectText), Members(Arr(items), oc))

\* the collaborator answers with exactly one entry per question, in order
PerQuestionInputs ==
    \E n \in 0..MaxQuestions :
    \E sc \in [1..n -> {0, 5, 10}] :
        /\ questions = Questions(n)
        /\ reply = TextReply(Str(ObjectText),
                      Members(Arr([i \in 1..n |->
                                      Item(Str(QId(i)), Num(sc[i]), Str("A"))]),
                              Str("C")))

\* the collaborator's object has no usable assessments list
ShapeInputs ==
    \E n \in 0..1 :
    \E a \in {Undefined, Null, Str(""), Str("oops"), Num(0), Num(7),
              Arr(<<Null>>),
              Arr(<<Item(Str(QId(1)), Num(10), Str("A")), Null>>)} :
    \E oc \in {Undefined, Str(""), Str("C")} :
        /\ questions = Questions(n)
        /\ reply = TextReply(Str(ObjectText), Members(a, oc))

\* the collaborator's text is any lexeme sequence, or missing
TextInputs ==
    \E tx \in {Undefined} \cup {Str(w) : w \in SeqsUpTo(Lexemes, MaxTextLen)} :
        /\ questions = Questions(1)
        /\ reply = TextReply(tx,
                      Members(Arr(<<Item(Str(QId(1)), Num(10), Str("A"))>>), Str("C")))

\* the collaborator call fails
ThrowInputs ==
    \E n \in 0..1 :
        /\ questions = Questions(n)
        /\ reply = ThrowReply

GradeInputs ==
    \/ LooseInputs
    \/ PerQuestionInputs
    \/ ShapeInputs
    \/ TextInputs
    \/ ThrowInputs

----------------------------------------------------------------------------
(* Specification of gradeSubmission run on a fixed collaborator response.  *)

-----------------------------------------------------------------------------
(* The exam session: what StudentExam hands to the App on submit.          *)

\* useState<Record<string, string>>({}): the empty Answer Store
NoAnswers == <<>>

\* the props of StudentExam other than the questions
AssignmentId == "a_1"
StudentName == <<"A", "n">>
StudentClass == <<"7", "A">>

\* the readings Date.now() is given to return
ClockReadings == {Num(1), Num(2)}

\* the object the callback armed by handleConfirmSubmit passes to onSubmit,
\* for the answers ans that its closure holds and the clock reading at
Submission(ans, at) ==
    [assignmentId |-> AssignmentId, studentName |-> StudentName,
     studentClass |-> StudentClass, answers |-> ans, submittedAt |-> at]

-----------------------------------------------------------------------------
(* The answer rows: how the review list of StudentExam and the detail list *)
(* of ResultAnalysis show the answer of one question.  The texts of this   *)
(* part are sequences of characters, so that trim and toUpperCase act on   *)
(* them as they do in the code.                                            *)

\* a string, as the sequence cs of its characters
Text(cs) == [t |-> "text", v |-> cs]

\* !x, for the values of this part
IsFalsy(x) == x.t \in {"undefined", "null"} \/ (x.t = "text" /\ x.v = <<>>)

\* a || b
OrText(a, b) == IF IsFalsy(a) THEN b ELSE a

\* the characters answer tokens are made of
TokenChars == {" ", "A", "b", "e"}

\* the answer tokens: the stored answers and the correctAnswer fields
Tokens == {Text(cs) : cs \in SeqsUpTo(TokenChars, MaxTokenLen)}

\* String.prototype.toUpperCase, on one character
UpperChar(c) == CASE c = "b" -> "B" [] c = "e" -> "E" [] OTHER -> c

\* String.prototype.toUpperCase
ToUpperCase(cs) == [i \in DOMAIN cs |-> UpperChar(cs[i])]

\* String.prototype.trim
RECURSIVE Trim(_)
Trim(cs) ==
    IF cs = <<>> THEN cs
    ELSE IF Head(cs) = " " THEN Trim(Tail(cs))
    ELSE IF cs[Len(cs)] = " " THEN Trim(SubSeq(cs, 1, Len(cs) - 1))
    ELSE cs

\* ['A', 'B', 'C', 'D']
Letters == <<<<"A">>, <<"B">>, <<"C">>, <<"D">>>>

\* ['A', 'B', 'C', 'D'].indexOf(cs)
LetterIndexOf(cs) ==
    IF \E i \in DOMAIN Letters : Letters[i] = cs
    THEN (CHOOSE i \in DOMAIN Letters : Letters[i] = cs) - 1
    ELSE -1

\* options[idx], for an options array
OptionAt(options, idx) ==
    IF idx + 1 \in DOMAIN options.v THEN options.v[idx + 1] ELSE Undefined

\* getMCQText(q, key) of ResultAnalysis
getMCQText(q, key) ==
    IF IsFalsy(key) THEN Null
    ELSE IF q.type # "MCQ" \/ IsFalsy(q.options) THEN key
    ELSE LET idx == LetterIndexOf(ToUpperCase(Trim(key.v)))
         IN  IF idx # -1 /\ ~IsFalsy(OptionAt(q.options, idx))
             THEN OptionAt(q.options, idx)
             ELSE key

\* assignment.questions.find(item => item.id === qId)
Find(qs, qId) ==
    IF \E i \in DOMAIN qs : qs[i].id = qId
    THEN qs[CHOOSE i \in DOMAIN qs :
               qs[i].id = qId /\ \A j \in 1..(i - 1) : qs[j].id # qId]
    ELSE Undefined

\* getAnswerDisplay(qId) of StudentExam: the placeholder, the letter with
\* the text of its option, or the stored answer alone
getAnswerDisplay(qs, ans, qId) ==
    LET q == Find(qs, qId)
        ansKey == Get(ans, qId)
    IN  IF q = Undefined \/ IsFalsy(ansKey) THEN [kind |-> "notDone"]
        ELSE IF q.type = "MCQ" /\ ~IsFalsy(q.options)
                   /\ LetterIndexOf(ansKey.v) # -1
             THEN [kind |-> "option", key |-> ansKey,
                   text |-> OptionAt(q.options, LetterIndexOf(ansKey.v))]
             ELSE [kind |-> "plain", text |-> ansKey]

\* a mark that compares what the two tokens are shown as
IsMarkedCorrectByText(q, sub) ==
    getMCQText(q, Get(sub.answers, q.id)) = getMCQText(q, q.correctAnswer)

\* submission.answers[q.id] === q.correctAnswer
IsMarkedCorrect(q, sub) == Get(sub.answers, q.id) = q.correctAnswer

\* the row of question q in the detail list of ResultAnalysis: the mark,
\* the student's answer and the reference answer
ResultRowOf(q, sub) ==
    [mark |-> IF q.type \in {"MCQ", "TRUE_FALSE"}
              THEN IF IsMarkedCorrect(q, sub) THEN "correct" ELSE "wrong"
              ELSE "none",
     yours |-> IF ~IsFalsy(Get(sub.answers, q.id))
               THEN OrText(getMCQText(q, Get(sub.answers, q.id)), Text(<<>>))
               ELSE [t |-> "placeholder"],
     reference |-> OrText(getMCQText(q, q.correctAnswer), Text(<<>>))]

\* nothing rendered yet
NotRendered == [kind |-> "none"]

\* the display variables of a run that renders no answer row
DisplayIdle ==
    /\ resultRow = NotRendered
    /\ reviewRow = NotRendered

-----------------------------------------------------------------------------
(* The teacher dashboard and the App state around it.                      *)

\* the useState initial value of typeConfigs (the difficulty is left out:
\* it only goes into the prompt)
InitialTypeConfigs ==
    [ty \in {"MCQ", "TRUE_FALSE", "SHORT_ANSWER", "ESSAY"} |->
        CASE ty = "MCQ" -> [selected |-> TRUE, count |-> 5]
          [] ty = "TRUE_FALSE" -> [selected |-> TRUE, count |-> 5]
          [] ty = "SHORT_ANSWER" -> [selected |-> FALSE, count |-> 3]
          [] OTHER -> [selected |-> FALSE, count |-> 2]]

\* the Assignment handleConfirmAssign builds from the generated questions
\* (title, subject, grade, topic and createdAt are left out)
NewAssignment(qs) == [id |-> AssignmentId, questions |-> qs]

\* the object handleStudentLogin stores
StudentInfo == [name |-> StudentName, className |-> StudentClass]

\* the values crypto.randomUUID() is given to return
AssignmentIds == {AssignmentId, "a_2"}

\* what can stand in the name field and in the class field of the login
\* form when it is sent
LoginNames == {<<>>, <<" ">>, StudentName, <<" ">> \o StudentName}
LoginClasses == {<<>>, <<" ">>, StudentClass}

\* the state of a freshly mounted dashboard
DashboardMounted ==
    /\ dashLoading = FALSE
    /\ typeConfigs = InitialTypeConfigs
    /\ generatedQuestions = <<>>
    /\ generating = 0
    /\ lastAlert = "none"

\* the rest of the App state of a run that starts with a student at work
\* on the assignment
AssignedTo(qs) ==
    /\ DashboardMounted
    /\ assignment = NewAssignment(qs)
    /\ studentInfo = StudentInfo
    /\ isAdmin = FALSE

\* the session variables of a run that starts on the results screen
SessionIdle ==
    /\ answers = NoAnswers
    /\ isSubmitting = FALSE
    /\ currentQuestionIndex = 0
    /\ isReviewing = FALSE
    /\ showSubmitModal = FALSE
    /\ showSidebar = FALSE
    /\ timeLeft = 0
    /\ timerActive = FALSE
    /\ deliveries = <<>>
    /\ currentView = "RESULTS"
    /\ submission = Submission(NoAnswers, Num(1))
    /\ DisplayIdle
    /\ AssignedTo(questions)

\* the results screen is not part of this specification
ResultsIdle ==
    /\ result = Null
    /\ loading = TRUE
    /\ errorMsg = Null
    /\ emailStatus = "idle"
    /\ pending = 0
    /\ effectDone = FALSE
    /\ emailTimers = 0
    /\ teacherEmail = Str("")
    /\ lastEvent = "construct"
    /\ attempts = 0

InitGrade ==
    /\ GradeInputs
    /\ outcome = NoOutcome
    /\ previous = NoOutcome
    /\ runs = 0
    /\ feedbackMap = NewFeedbackMap
    /\ earnedScore = 0
    /\ ResultsIdle
    /\ SessionIdle

\* one run of gradeSubmission on the collaborator reply rep
RunGrade(rep) ==
    LET r == GradeRun(questions, rep)
    IN  /\ outcome' = r.outcome
        /\ feedbackMap' = IF r.declared THEN r.feedbackMap ELSE feedbackMap
        /\ earnedScore' = IF r.declared THEN r.earnedScore ELSE earnedScore
        /\ previous' = outcome
        /\ runs' = runs + 1
        /\ reply' = rep
        /\ UNCHANGED questions

\* one call of gradeSubmission on the response
GradeSubmission ==
    /\ runs < MaxRuns
    /\ RunGrade(reply)
    /\ UNCHANGED resultVars
    /\ UNCHANGED sessionVars

NextGrade == GradeSubmission

SpecGrade == InitGrade /\ [][NextGrade]_vars

----------------------------------------------------------------------------
(* What the claims about gradeSubmission speak of.                         *)

\* a run of gradeSubmission has returned a GradingResult
Graded == outcome.kind = "result"

\* the response text as the collaborator sent it
RawText == IF reply.text.t = "undefined" THEN <<>> ELSE reply.text.v

\* the value JSON.parse gives for the cleaned text
Parsed == JsonParse(cleanJsonText(ResponseText(reply)), reply.members)

\* the parsed object carries a list of assessments
HasList ==
    /\ reply.kind = "text"
    /\ Parsed.ok
    /\ Parsed.value.t = "object"
    /\ Parsed.value.assessments.t = "array"

\* the assessment entries of the response, none when it carries no list
Entries == IF HasList THEN Parsed.value.assessments.v ELSE <<>>

\* entry i names question id q
Mentions(i, q) == Entries[i].questionId = Str(q)

\* the same reply with entry i of the list left out
WithoutEntry(i) ==
    TextReply(reply.text,
        Members(Arr([j \in 1..(Len(Entries) - 1) |->
                        IF j < i THEN Entries[j] ELSE Entries[j + 1]]),
                reply.members.overallComment))

\* the score an entry contributes when it is recorded
EntryScore(i) == IF Entries[i].score.t = "number" THEN Entries[i].score.v ELSE 0

RECURSIVE SumRecorded(_)
\* the sum of the scores of the first k entries that carry a question id
SumRecorded(k) ==
    IF k = 0 THEN 0
    ELSE SumRecorded(k - 1)
         + (IF Truthy(Entries[k].questionId) THEN EntryScore(k) ELSE 0)

\* the response holds exactly one entry for each question
OnePerQuestion ==
    /\ HasList
    /\ Len(Entries) = Len(questions)
    /\ \A q \in QuestionIds(questions) : \E i \in 1..Len(Entries) : Mentions(i, q)

\* the score of entry i is a number between 0 and 10
ScoreInScale(i) ==
    /\ Entries[i].score.t = "number"
    /\ Entries[i].score.v >= 0
    /\ Entries[i].score.v <= 10

----------------------------------------------------------------------------
(* Claims about gradeSubmission, checked under SpecGrade.                  *)

\* C1: the key set of the returned feedback map is exactly the set of
\* question ids of the assignment, whatever the collaborator returned.
C1_FeedbackKeysExact ==
    Graded => DOMAIN outcome.value.feedback = QuestionIds(questions)

\* C2: an entry whose questionId is the id of no question is ignored: the
\* GradingResult is the one computed from the response without that entry.
C2_UnknownEntryIgnored ==
    Graded =>
        \A i \in 1..Len(Entries) :
            (\A q \in QuestionIds(questions) : ~Mentions(i, q))
                => gradeSubmission(questions, WithoutEntry(i)) = outcome

\* C3: with at least one question and every per-entry score in 0..10, the
\* score lies between 0 and 10 and totalScore is 10.
C3_ScoreInRange ==
    (/\ Graded
     /\ Len(questions) >= 1
     /\ \A i \in 1..Len(Entries) : ScoreInScale(i))
        => /\ outcome.value.score >= 0
           /\ outcome.value.score <= 10 * 10
           /\ outcome.value.totalScore = 10

\* C4: the score is (earnedScore / (n * 10)) * 10 rounded to one decimal
\* place, earnedScore being the sum of the recorded scores; all scores 10
\* gives 10.0, no assessments gives 0.0, [10,10,0,0] on four questions gives
\* 5.0, and no questions gives 0.
C4_Normalization ==
    Graded =>
        LET n == Len(questions)
            e == SumRecorded(Len(Entries))
            s == outcome.value.score
        IN  /\ n = 0 => s = 0
            /\ n > 0 => /\ 2 * n * s - n <= 20 * e
                        /\ 20 * e < 2 * n * s + n
            /\ Entries = <<>> => s = 0
            /\ (/\ n > 0
                /\ OnePerQuestion
                /\ \A i \in 1..Len(Entries) : Entries[i].score = Num(10))
                   => s = 100
            /\ (/\ n = 4
                /\ OnePerQuestion
                /\ [i \in 1..4 |-> Entries[i].score] = <<Num(10), Num(10), Num(0), Num(0)>>)
                   => s = 50

\* C4 witness: four questions scored [10,10,0,0] were graded 5.0
C4_Witness ==
    /\ Graded
    /\ Len(questions) = 4
    /\ OnePerQuestion
    /\ [i \in 1..4 |-> Entries[i].score] = <<Num(10), Num(10), Num(0), Num(0)>>
    /\ outcome.value.score = 50

\* the last entry that names question id q
LastMention(q) ==
    CHOOSE i \in 1..Len(Entries) :
        Mentions(i, q) /\ \A j \in (i + 1)..Len(Entries) : ~Mentions(j, q)

\* C5: a question no entry mentions gets the 'no assessment' placeholder, a
\* question an entry mentions keeps the feedback recorded from the
\* collaborator, and no feedback value is empty.
C5_Backfill ==
    Graded =>
        /\ \A q \in QuestionIds(questions) :
              IF \E i \in 1..Len(Entries) : Mentions(i, q)
              THEN LET fb == Entries[LastMention(q)].feedback
                   IN  outcome.value.feedback[q] =
                           (IF Truthy(fb) THEN fb ELSE Str(NoCommentText))
              ELSE outcome.value.feedback[q] = Str(NoAssessmentText)
        /\ \A k \in DOMAIN outcome.value.feedback :
              /\ outcome.value.feedback[k].t = "string"
              /\ outcome.value.feedback[k].v # ""

\* C5 witness: one question kept the collaborator's feedback while another
\* one was backfilled
C5_Witness ==
    /\ Graded
    /\ \E q \in QuestionIds(questions) :
          /\ \E i \in 1..Len(Entries) : Mentions(i, q)
          /\ outcome.value.feedback[q] = Str("B")
    /\ \E q \in QuestionIds(questions) :
          /\ \A i \in 1..Len(Entries) : ~Mentions(i, q)
          /\ outcome.value.feedback[q] = Str(NoAssessmentText)

\* C6: running the reduction twice on the same assignment and the same raw
\* collaborator output gives identical outcomes: the second run starts from
\* nothing the first one left behind.
C6_SameOnRerun == runs >= 2 => outcome = previous

\* C6 witness: a second run returned a result after a first run that had
\* earned a score and recorded feedback
C6_Witness ==
    /\ runs = 2
    /\ Graded
    /\ earnedScore > 0
    /\ DOMAIN feedbackMap # {}

\* C7 as stated: when the collaborator call fails or the response text (a
\* text that is there) is not parsable JSON, gradeSubmission fails and
\* returns no GradingResult.
C7_UnparsableTextFails ==
    (/\ runs >= 1
     /\ \/ reply.kind = "throw"
        \/ /\ RawText # <<>>
           /\ ~JsonParse(RawText, reply.members).ok)
        => outcome = GradingFailed

\* C7 as amended: when the collaborator call fails, or the text that is left
\* after "{}" has replaced an empty text and the outermost brace span has been
\* extracted is not parsable JSON, gradeSubmission fails and returns no
\* GradingResult.
C7_CleanedTextFails ==
    (/\ runs >= 1
     /\ \/ reply.kind = "throw"
        \/ ~Parsed.ok)
        => outcome = GradingFailed

\* C7 witness: both failures happened, the call that threw and the text that
\* stays unparsable after cleaning
C7_Witness ==
    /\ runs >= 1
    /\ reply.kind = "text"
    /\ RawText # <<>>
    /\ ~Parsed.ok
    /\ outcome = GradingFailed

\* the response text is empty or missing
EmptyText == reply.kind = "text" /\ RawText = <<>>

\* the response is a JSON object without an assessments list
NoAssessmentsList ==
    /\ reply.kind = "text"
    /\ Parsed.ok
    /\ Parsed.value.t = "object"
    /\ ~Truthy(Parsed.value.assessments)

\* C8 as stated: a response that cannot be parsed into the expected shape (an
\* empty text, an object with no assessments list) makes gradeSubmission fail.
C8_UnshapedResponseFails ==
    (runs >= 1 /\ (EmptyText \/ NoAssessmentsList)) => outcome = GradingFailed

\* C8 as amended: an empty text or an object with no assessments list is
\* graded as a response with no assessments (score 0, every question
\* backfilled); gradeSubmission fails when the cleaned text does not parse,
\* parses to null, or carries an assessments value that is not a list.
C8_UnshapedResponseGraded ==
    runs >= 1 =>
        /\ (EmptyText \/ NoAssessmentsList) =>
              /\ Graded
              /\ outcome.value.score = 0
              /\ outcome.value.feedback =
                     [q \in QuestionIds(questions) |-> Str(NoAssessmentText)]
        /\ (/\ reply.kind = "text"
            /\ \/ ~Parsed.ok
               \/ Parsed.value.t = "null"
               \/ /\ Parsed.value.t = "object"
                  /\ Truthy(Parsed.value.assessments)
                  /\ Parsed.value.assessments.t # "array")
              => outcome = GradingFailed

\* C8 witness: an object without an assessments list was graded 0 for an
\* assignment that has a question
C8_Witness ==
    /\ runs >= 1
    /\ NoAssessmentsList
    /\ RawText # <<>>
    /\ Len(questions) >= 1
    /\ Graded
    /\ outcome.value.score = 0

----------------------------------------------------------------------------
(* ResultAnalysis, the results screen.                                     *)

\* no collaborator reply has arrived
NoReply == [kind |-> "none", text |-> Undefined, members |-> Members(Undefined, Undefined)]

\* the replies the collaborator gives to the calls of the results screen
ScreenReplies ==
    {ThrowReply,
     TextReply(Undefined, Members(Undefined, Undefined)),
     TextReply(Str(<<"w">>), Members(Undefined, Undefined)),
     TextReply(Str(ObjectText),
         Members(Arr(<<Item(Str(QId(1)), Num(10), Str("A"))>>), Str("C"))),
     TextReply(Str(<<"f", "{", "m", "}", "f">>),
         Members(Arr(<<Item(Str(UnknownId), Num(4), Str("B"))>>), Undefined))}

\* (error as Error).message
ErrorMessage == Str("AI Grading failed")

\* what the component renders: the `if (loading)` screen, the
\* `if (errorMsg || !result)` screen with the retry button, or the results
Screen ==
    IF loading THEN "grading"
    ELSE IF Truthy(errorMsg) \/ result = Null THEN "error"
    ELSE "results"

\* the retry button is on the screen
RetryShown == Screen = "error"

\* mutant of FetchGrade: the call is issued without raising the loading flag
FetchGradeKeepsFlags ==
    /\ pending' = pending + 1
    /\ attempts' = attempts + 1
    /\ UNCHANGED <<loading, errorMsg>>

\* fetchGrade up to its await: the flags are set and the call is issued
FetchGrade ==
    /\ loading' = TRUE
    /\ errorMsg' = Null
    /\ pending' = pending + 1
    /\ attempts' = attempts + 1

InitResults ==
    /\ questions \in {Questions(n) : n \in 0..MaxLooseQuestions}
    /\ reply = NoReply
    /\ outcome = NoOutcome
    /\ previous = NoOutcome
    /\ runs = 0
    /\ feedbackMap = NewFeedbackMap
    /\ earnedScore = 0
    /\ result = Null
    /\ loading = TRUE
    /\ errorMsg = Null
    /\ emailStatus = "idle"
    /\ pending = 0
    /\ effectDone = FALSE
    /\ emailTimers = 0
    /\ teacherEmail \in {Str(""), Str("teacher@school.edu.vn")}
    /\ lastEvent = "construct"
    /\ attempts = 0
    /\ SessionIdle

\* useEffect(() => { fetchGrade(); }, []): runs once, after the first render
MountEffect ==
    /\ ~effectDone
    /\ effectDone' = TRUE
    /\ FetchGrade
    /\ lastEvent' = "effect"
    /\ UNCHANGED <<result, emailStatus, emailTimers, teacherEmail>>
    /\ UNCHANGED gradeVars
    /\ UNCHANGED sessionVars

\* the user clicks the retry button: onClick={fetchGrade}
RetryClick ==
    /\ RetryShown
    /\ attempts < MaxAttempts
    /\ FetchGrade
    /\ lastEvent' = "retryClick"
    /\ UNCHANGED <<result, emailStatus, emailTimers, teacherEmail, effectDone>>
    /\ UNCHANGED gradeVars
    /\ UNCHANGED sessionVars

\* the awaited gradeSubmission returns: the try block after the await, finally
GradeResolved ==
    /\ pending > 0
    /\ \E rep \in ScreenReplies :
          /\ gradeSubmission(questions, rep).kind = "result"
          /\ RunGrade(rep)
    /\ result' = outcome'.value
    /\ IF Truthy(teacherEmail)
       THEN emailStatus' = "sending" /\ emailTimers' = emailTimers + 1
       ELSE UNCHANGED <<emailStatus, emailTimers>>
    /\ loading' = FALSE
    /\ pending' = pending - 1
    /\ lastEvent' = "resolved"
    /\ UNCHANGED <<errorMsg, effectDone, teacherEmail, attempts>>
    /\ UNCHANGED sessionVars

\* mutant of GradeRejected: the catch block calls fetchGrade again
GradeRejectedRetries ==
    /\ pending > 0
    /\ attempts < MaxAttempts
    /\ \E rep \in ScreenReplies :
          /\ gradeSubmission(questions, rep).kind = "error"
          /\ RunGrade(rep)
    /\ loading' = TRUE
    /\ errorMsg' = Null
    /\ attempts' = attempts + 1
    /\ lastEvent' = "rejected"
    /\ UNCHANGED <<result, emailStatus, emailTimers, effectDone, teacherEmail, pending>>
    /\ UNCHANGED sessionVars

\* a catch block that stores what the failed call left behind as the result
GradeRejectedStoresPartial ==
    /\ pending > 0
    /\ \E rep \in ScreenReplies :
          /\ gradeSubmission(questions, rep).kind = "error"
          /\ RunGrade(rep)
    /\ result' = [score |-> earnedScore', feedback |-> feedbackMap']
    /\ errorMsg' = ErrorMessage
    /\ loading' = FALSE
    /\ pending' = pending - 1
    /\ lastEvent' = "rejected"
    /\ UNCHANGED <<emailStatus, emailTimers, effectDone, teacherEmail, attempts>>
    /\ UNCHANGED sessionVars

\* a catch block without the finally: the loading flag stays raised
GradeRejectedKeepsLoading ==
    /\ pending > 0
    /\ \E rep \in ScreenReplies :
          /\ gradeSubmission(questions, rep).kind = "error"
          /\ RunGrade(rep)
    /\ errorMsg' = ErrorMessage
    /\ pending' = pending - 1
    /\ lastEvent' = "rejected"
    /\ UNCHANGED <<result, loading, emailStatus, emailTimers, effectDone,
                   teacherEmail, attempts>>
    /\ UNCHANGED sessionVars

\* the awaited gradeSubmission throws: the catch block, finally
GradeRejected ==
    /\ pending > 0
    /\ \E rep \in ScreenReplies :
          /\ gradeSubmission(questions, rep).kind = "error"
          /\ RunGrade(rep)
    /\ errorMsg' = ErrorMessage
    /\ loading' = FALSE
    /\ pending' = pending - 1
    /\ lastEvent' = "rejected"
    /\ UNCHANGED <<result, emailStatus, emailTimers, effectDone, teacherEmail, attempts>>
    /\ UNCHANGED sessionVars

\* the setTimeout callback of the email simulation
EmailTimerFires ==
    /\ emailTimers > 0
    /\ emailStatus' = "success"
    /\ emailTimers' = emailTimers - 1
    /\ lastEvent' = "emailTimer"
    /\ UNCHANGED <<result, loading, errorMsg, pending, effectDone, teacherEmail, attempts>>
    /\ UNCHANGED gradeVars
    /\ UNCHANGED sessionVars

NextResults ==
    \/ MountEffect
    \/ RetryClick
    \/ GradeResolved
    \/ GradeRejected
    \/ EmailTimerFires

SpecResults == InitResults /\ [][NextResults]_vars

----------------------------------------------------------------------------
(* Claims about the results screen, checked under SpecResults.             *)

\* C9: at most one grading call is outstanding at any time; while one is, the
\* loading flag is true, the 'grading in progress' screen is the one shown,
\* and neither the initial fetch nor the retry can start another call.
C9_OneOutstandingCall ==
    /\ pending <= 1
    /\ pending > 0 =>
          /\ loading = TRUE
          /\ Screen = "grading"
          /\ ~RetryShown
          /\ effectDone

\* C9 witness: the call of a retry is outstanding
C9_Witness ==
    /\ pending = 1
    /\ attempts >= 2
    /\ lastEvent = "retryClick"
    /\ loading = TRUE

\* C10: a failed grading call issues no further call by itself; a call after
\* the first one is issued only by the user's retry click on the error
\* screen, and that retry clears the error message, sets the loading flag and
\* issues one new call.
C10_RetryOnlyByUser ==
    [][/\ lastEvent' = "rejected" =>
              /\ attempts' = attempts
              /\ pending' = pending - 1
       /\ (attempts' # attempts /\ attempts >= 1) =>
              /\ lastEvent' = "retryClick"
              /\ RetryShown
              /\ Truthy(errorMsg)
              /\ errorMsg' = Null
              /\ loading' = TRUE
              /\ attempts' = attempts + 1
              /\ pending' = pending + 1]_vars

\* C10 witness: after a failed call the user retried, and the new call is
\* outstanding with the error message cleared
C10_Witness ==
    /\ lastEvent = "retryClick"
    /\ outcome = GradingFailed
    /\ attempts >= 2
    /\ pending = 1
    /\ errorMsg = Null
    /\ loading = TRUE

-----------------------------------------------------------------------------
(* StudentExam: the exam screen.                                           *)
(* The navigation handlers are modelled as the operations they are: they   *)
(* may be called in any state of the mounted screen and goToQuestion with  *)
(* any index.  The buttons that call them are rendered in a subset of      *)
(* these states and lead to no state the buttons cannot reach.  Answer     *)
(* changes come from the widget of the question shown, and the submit      *)
(* buttons are guarded by their disabled attribute.                        *)

\* the question types, in the order the assignments of the model use them
QuestionTypes == <<"MCQ", "SHORT_ANSWER", "TRUE_FALSE", "ESSAY">>

\* the type of the i-th question of an exam
TypeOf(i) == QuestionTypes[((i - 1) % Len(QuestionTypes)) + 1]

\* the options of a multiple-choice question
Options == <<"o1", "o2">>

\* the questions of an exam with n questions
ExamQuestions(n) == [i \in 1..n |-> [id |-> QId(i), type |-> TypeOf(i)]]

\* the texts a student is given to type into a text widget; the empty
\* text is what the widget reports when the field is cleared
TypedTexts == {"", "x"}

\* the values the widget of question q passes to handleAnswerChange: the
\* letter of an option, one of the two truth values, or the new content of
\* a text field, which differs from the content shown,
\* answers[q.id] || ''
WidgetValues(q) ==
    CASE q.type = "MCQ" ->
            {Str(<<"A", "B", "C", "D">>[i]) : i \in 1..Len(Options)}
      [] q.type = "TRUE_FALSE" -> {Str("Dung"), Str("Sai")}
      [] OTHER -> {Str(s) : s \in TypedTexts}
                     \ {OrElse(Get(answers, q.id), Str(""))}

\* useState(45 * 60)
ExamDuration == 45 * 60

\* the exam screen is rendered
Mounted == currentView = "STUDENT_EXAM"

\* assignment.questions[currentQuestionIndex]
currentQ == questions[currentQuestionIndex + 1]
isLastQuestion == currentQuestionIndex = Len(questions) - 1
isFirstQuestion == currentQuestionIndex = 0

\* the state of a freshly mounted exam screen on an assignment with n
\* questions, after the timer effect has run
ExamMounted(n) ==
    /\ questions = ExamQuestions(n)
    /\ reply = NoReply
    /\ outcome = NoOutcome
    /\ previous = NoOutcome
    /\ runs = 0
    /\ feedbackMap = NewFeedbackMap
    /\ earnedScore = 0
    /\ ResultsIdle
    /\ answers = NoAnswers
    /\ isSubmitting = FALSE
    /\ currentQuestionIndex = 0
    /\ isReviewing = FALSE
    /\ showSubmitModal = FALSE
    /\ showSidebar = FALSE
    /\ timeLeft = ExamDuration
    /\ timerActive = TRUE
    /\ deliveries = <<>>
    /\ currentView = "STUDENT_EXAM"
    /\ submission = Null
    /\ DisplayIdle
    /\ AssignedTo(questions)

InitExam == \E n \in 1..MaxExamQuestions : ExamMounted(n)

\* what the exam actions leave alone
ExamFrame ==
    UNCHANGED <<gradeVars, resultVars, displayVars, teacherVars, adminVars>>

\* an Answer Store that keeps the first value written under a key
handleAnswerChangeOnce(prev, qId, val) ==
    IF qId \in DOMAIN prev THEN prev ELSE Put(prev, qId, val)

\* setAnswers(prev => ({ ...prev, [qId]: val }))
handleAnswerChange(prev, qId, val) == Put(prev, qId, val)

\* an answer change that writes into the object the armed callbacks hold
AnswerChangeInPlace ==
    /\ Mounted
    /\ ~isReviewing
    /\ \E val \in WidgetValues(currentQ) :
          answers' = handleAnswerChange(answers, currentQ.id, val)
    /\ deliveries' = [i \in DOMAIN deliveries |-> answers']
    /\ UNCHANGED <<isSubmitting, currentQuestionIndex, isReviewing,
                   showSubmitModal, showSidebar, timeLeft, timerActive>>
    /\ UNCHANGED appVars
    /\ ExamFrame

\* the widget of the question shown reports a value
AnswerChange ==
    /\ Mounted
    /\ ~isReviewing
    /\ \E val \in WidgetValues(currentQ) :
          answers' = handleAnswerChange(answers, currentQ.id, val)
    /\ UNCHANGED <<isSubmitting, currentQuestionIndex, isReviewing,
                   showSubmitModal, showSidebar, timeLeft, timerActive,
                   deliveries>>
    /\ UNCHANGED appVars
    /\ ExamFrame

\* goToQuestion(index) without its range check
goToQuestionUnchecked(index) ==
    /\ currentQuestionIndex' = index
    /\ isReviewing' = FALSE
    /\ showSidebar' = FALSE

\* goToQuestion(index) that leaves the review flag as it is
goToQuestionKeepsReview(index) ==
    IF index >= 0 /\ index < Len(questions)
    THEN /\ currentQuestionIndex' = index
         /\ showSidebar' = FALSE
         /\ UNCHANGED isReviewing
    ELSE UNCHANGED <<currentQuestionIndex, isReviewing, showSidebar>>

\* goToQuestion(index)
goToQuestion(index) ==
    IF index >= 0 /\ index < Len(questions)
    THEN /\ currentQuestionIndex' = index
         /\ isReviewing' = FALSE
         /\ showSidebar' = FALSE
    ELSE UNCHANGED <<currentQuestionIndex, isReviewing, showSidebar>>

\* a call of goToQuestion(index)
JumpTo(index) ==
    /\ Mounted
    /\ goToQuestion(index)
    /\ UNCHANGED <<answers, isSubmitting, showSubmitModal, timeLeft,
                   timerActive, deliveries>>
    /\ UNCHANGED appVars
    /\ ExamFrame

\* goToQuestion is called with an index, in range or just outside it
GoToQuestion == \E index \in -1..Len(questions) : JumpTo(index)

\* handleNext() that wraps to the first question instead of entering review
handleNextWraps ==
    IF currentQuestionIndex < Len(questions) - 1
    THEN /\ currentQuestionIndex' = currentQuestionIndex + 1
         /\ UNCHANGED isReviewing
    ELSE /\ currentQuestionIndex' = 0
         /\ UNCHANGED isReviewing

\* handleNext()
handleNext ==
    IF currentQuestionIndex < Len(questions) - 1
    THEN /\ currentQuestionIndex' = currentQuestionIndex + 1
         /\ UNCHANGED isReviewing
    ELSE /\ isReviewing' = TRUE
         /\ UNCHANGED currentQuestionIndex

HandleNext ==
    /\ Mounted
    /\ handleNext
    /\ UNCHANGED <<answers, isSubmitting, showSubmitModal, showSidebar,
                   timeLeft, timerActive, deliveries>>
    /\ UNCHANGED appVars
    /\ ExamFrame

\* handlePrev() that also steps back a question when it leaves review mode
handlePrevStepsBackInReview ==
    IF currentQuestionIndex > 0
    THEN /\ currentQuestionIndex' = currentQuestionIndex - 1
         /\ isReviewing' = FALSE
    ELSE /\ isReviewing' = FALSE
         /\ UNCHANGED currentQuestionIndex

\* handlePrev() that wraps from the first question to the last
handlePrevWraps ==
    IF isReviewing
    THEN /\ isReviewing' = FALSE
         /\ UNCHANGED currentQuestionIndex
    ELSE IF currentQuestionIndex > 0
         THEN /\ currentQuestionIndex' = currentQuestionIndex - 1
              /\ UNCHANGED isReviewing
         ELSE /\ currentQuestionIndex' = Len(questions) - 1
              /\ UNCHANGED isReviewing

\* handlePrev()
handlePrev ==
    IF isReviewing
    THEN /\ isReviewing' = FALSE
         /\ UNCHANGED currentQuestionIndex
    ELSE IF currentQuestionIndex > 0
         THEN /\ currentQuestionIndex' = currentQuestionIndex - 1
              /\ UNCHANGED isReviewing
         ELSE UNCHANGED <<currentQuestionIndex, isReviewing>>

HandlePrev ==
    /\ Mounted
    /\ handlePrev
    /\ UNCHANGED <<answers, isSubmitting, showSubmitModal, showSidebar,
                   timeLeft, timerActive, deliveries>>
    /\ UNCHANGED appVars
    /\ ExamFrame

\* the overview button, were it to reset the Answer Store as well
EnterReviewResetsAnswers ==
    /\ Mounted
    /\ isReviewing' = TRUE
    /\ answers' = NoAnswers
    /\ UNCHANGED <<isSubmitting, currentQuestionIndex, showSubmitModal,
                   showSidebar, timeLeft, timerActive, deliveries>>
    /\ UNCHANGED appVars
    /\ ExamFrame

\* the overview button of the question list: setIsReviewing(true)
EnterReview ==
    /\ Mounted
    /\ isReviewing' = TRUE
    /\ UNCHANGED <<answers, isSubmitting, currentQuestionIndex,
                   showSubmitModal, showSidebar, timeLeft, timerActive,
                   deliveries>>
    /\ UNCHANGED appVars
    /\ ExamFrame

\* the back button of the review screen: setIsReviewing(false)
ExitReview ==
    /\ Mounted
    /\ isReviewing
    /\ isReviewing' = FALSE
    /\ UNCHANGED <<answers, isSubmitting, currentQuestionIndex,
                   showSubmitModal, showSidebar, timeLeft, timerActive,
                   deliveries>>
    /\ UNCHANGED appVars
    /\ ExamFrame

\* the menu button: setShowSidebar(!showSidebar)
ToggleSidebar ==
    /\ Mounted
    /\ showSidebar' = ~showSidebar
    /\ UNCHANGED <<answers, isSubmitting, currentQuestionIndex, isReviewing,
                   showSubmitModal, timeLeft, timerActive, deliveries>>
    /\ UNCHANGED appVars
    /\ ExamFrame

\* the close button of the question list: setShowSidebar(false)
CloseSidebar ==
    /\ Mounted
    /\ showSidebar
    /\ showSidebar' = FALSE
    /\ UNCHANGED <<answers, isSubmitting, currentQuestionIndex, isReviewing,
                   showSubmitModal, timeLeft, timerActive, deliveries>>
    /\ UNCHANGED appVars
    /\ ExamFrame

\* handlePreSubmit() from a submit button that isSubmitting does not disable
HandlePreSubmitAnyTime ==
    /\ Mounted
    /\ showSubmitModal' = TRUE
    /\ UNCHANGED <<answers, isSubmitting, currentQuestionIndex, isReviewing,
                   showSidebar, timeLeft, timerActive, deliveries>>
    /\ UNCHANGED appVars
    /\ ExamFrame

\* handlePreSubmit(), from a submit button, which isSubmitting disables
HandlePreSubmit ==
    /\ Mounted
    /\ ~isSubmitting
    /\ showSubmitModal' = TRUE
    /\ UNCHANGED <<answers, isSubmitting, currentQuestionIndex, isReviewing,
                   showSidebar, timeLeft, timerActive, deliveries>>
    /\ UNCHANGED appVars
    /\ ExamFrame

\* the two dismiss buttons of the summary: setShowSubmitModal(false)
CloseSubmitModal ==
    /\ Mounted
    /\ showSubmitModal
    /\ showSubmitModal' = FALSE
    /\ UNCHANGED <<answers, isSubmitting, currentQuestionIndex, isReviewing,
                   showSidebar, timeLeft, timerActive, deliveries>>
    /\ UNCHANGED appVars
    /\ ExamFrame

\* handleConfirmSubmit() that refuses an empty Answer Store
HandleConfirmSubmitValidated ==
    /\ Mounted
    /\ showSubmitModal
    /\ answers # NoAnswers
    /\ isSubmitting' = TRUE
    /\ showSubmitModal' = FALSE
    /\ deliveries' = Append(deliveries, answers)
    /\ UNCHANGED <<answers, currentQuestionIndex, isReviewing, showSidebar,
                   timeLeft, timerActive>>
    /\ UNCHANGED appVars
    /\ ExamFrame

\* handleConfirmSubmit() reachable without the summary being open
HandleConfirmSubmitDirect ==
    /\ Mounted
    /\ ~isSubmitting
    /\ isSubmitting' = TRUE
    /\ showSubmitModal' = FALSE
    /\ deliveries' = Append(deliveries, answers)
    /\ UNCHANGED <<answers, currentQuestionIndex, isReviewing, showSidebar,
                   timeLeft, timerActive>>
    /\ UNCHANGED appVars
    /\ ExamFrame

\* handleConfirmSubmit(), from the confirm button of the summary; the
\* callback it arms holds the answers of the render it was created in
HandleConfirmSubmit ==
    /\ Mounted
    /\ showSubmitModal
    /\ isSubmitting' = TRUE
    /\ showSubmitModal' = FALSE
    /\ deliveries' = Append(deliveries, answers)
    /\ UNCHANGED <<answers, currentQuestionIndex, isReviewing, showSidebar,
                   timeLeft, timerActive>>
    /\ UNCHANGED appVars
    /\ ExamFrame

\* an effect cleanup that leaves the interval scheduled
TimerLeftRunning == TRUE

\* return () => clearInterval(timer): the interval after the cleanup of the
\* timer effect
TimerCleanup == FALSE

\* handleSubmitExam(sub) of the App
handleSubmitExam(sub) ==
    /\ submission' = sub
    /\ currentView' = "RESULTS"

\* an armed callback that reads the Answer Store when it fires
DeliverSubmissionLive ==
    /\ deliveries # <<>>
    /\ \E at \in ClockReadings : handleSubmitExam(Submission(answers, at))
    /\ deliveries' = Tail(deliveries)
    /\ timerActive' = IF Mounted THEN TimerCleanup ELSE timerActive
    /\ UNCHANGED <<answers, isSubmitting, currentQuestionIndex, isReviewing,
                   showSubmitModal, showSidebar, timeLeft>>
    /\ ExamFrame

\* the armed callback fires after 500 ms: onSubmit(...) reaches the App,
\* the view leaves STUDENT_EXAM and the exam screen is unmounted
DeliverSubmission ==
    /\ deliveries # <<>>
    /\ \E at \in ClockReadings :
          handleSubmitExam(Submission(Head(deliveries), at))
    /\ deliveries' = Tail(deliveries)
    /\ timerActive' = IF Mounted THEN TimerCleanup ELSE timerActive
    /\ UNCHANGED <<answers, isSubmitting, currentQuestionIndex, isReviewing,
                   showSubmitModal, showSidebar, timeLeft>>
    /\ ExamFrame

\* the updater without its clamp at zero
TickUpdateUnclamped(prev) == prev - 1

\* the updater the interval callback passes to setTimeLeft
TickUpdate(prev) == IF prev <= 0 THEN 0 ELSE prev - 1

\* an interval callback that submits the exam when the time is up
TimerTickForcesSubmit ==
    /\ timerActive
    /\ timeLeft' = TickUpdate(timeLeft)
    /\ timerActive' = ~(timeLeft <= 0)
    /\ IF timeLeft <= 1 /\ ~isSubmitting
       THEN /\ isSubmitting' = TRUE
            /\ deliveries' = Append(deliveries, answers)
       ELSE UNCHANGED <<isSubmitting, deliveries>>
    /\ UNCHANGED <<answers, currentQuestionIndex, isReviewing,
                   showSubmitModal, showSidebar>>
    /\ UNCHANGED appVars
    /\ ExamFrame

\* an interval callback that does nothing while the summary is open
TimerTickPausedBySummary ==
    /\ timerActive
    /\ ~showSubmitModal
    /\ timeLeft' = TickUpdate(timeLeft)
    /\ timerActive' = ~(timeLeft <= 0)
    /\ UNCHANGED <<answers, isSubmitting, currentQuestionIndex, isReviewing,
                   showSubmitModal, showSidebar, deliveries>>
    /\ UNCHANGED appVars
    /\ ExamFrame

\* the interval callback fires
TimerTick ==
    /\ timerActive
    /\ timeLeft' = TickUpdate(timeLeft)
    /\ timerActive' = ~(timeLeft <= 0)
    /\ UNCHANGED <<answers, isSubmitting, currentQuestionIndex, isReviewing,
                   showSubmitModal, showSidebar, deliveries>>
    /\ UNCHANGED appVars
    /\ ExamFrame

\* the interval callback fires within the first MaxTicks seconds
EarlyTimerTick ==
    /\ ExamDuration - timeLeft < MaxTicks
    /\ TimerTick

NextExam ==
    \/ AnswerChange
    \/ GoToQuestion
    \/ HandleNext
    \/ HandlePrev
    \/ EnterReview
    \/ ExitReview
    \/ ToggleSidebar
    \/ CloseSidebar
    \/ HandlePreSubmit
    \/ CloseSubmitModal
    \/ HandleConfirmSubmit
    \/ DeliverSubmission
    \/ EarlyTimerTick

\* an exam session, observed for its first MaxTicks seconds
SpecExam == InitExam /\ [][NextExam]_vars

\* a whole countdown, on an exam with two questions
InitTimer == ExamMounted(2)

NextTimer ==
    \/ AnswerChange
    \/ GoToQuestion
    \/ HandleNext
    \/ HandlePrev
    \/ EnterReview
    \/ ExitReview
    \/ ToggleSidebar
    \/ CloseSidebar
    \/ HandlePreSubmit
    \/ CloseSubmitModal
    \/ HandleConfirmSubmit
    \/ DeliverSubmission
    \/ TimerTick

SpecTimer == InitTimer /\ [][NextTimer]_vars

-----------------------------------------------------------------------------
(* Claims about the exam screen.                                           *)

\* the screen shows question i (0-based) for answering
Answering(i) == ~isReviewing /\ currentQuestionIndex = i

\* C11: a call of next() while question i is shown for answering leads to
\* question i + 1 shown for answering when i is not the last index, and to
\* review mode, with the index kept, when it is; so n calls in a row from
\* question 0 of an n-question exam pass through questions 1 .. n-1 in
\* order and end in review mode
C11_NextAdvancesOrReviews ==
    [][(HandleNext /\ ~isReviewing) =>
         IF currentQuestionIndex < Len(questions) - 1
         THEN /\ ~isReviewing'
              /\ currentQuestionIndex' = currentQuestionIndex + 1
         ELSE /\ isReviewing'
              /\ currentQuestionIndex' = currentQuestionIndex]_vars

\* review mode at the last question of the longest exam
C11_Witness ==
    /\ Mounted
    /\ Len(questions) = MaxExamQuestions
    /\ isReviewing
    /\ isLastQuestion

\* C12: a call of prev() while question i > 0 is shown for answering leads
\* to question i - 1 shown for answering, and a call while question 0 is
\* shown for answering changes nothing
C12_PrevStepsBackOrStays ==
    /\ []((Mounted /\ Answering(0)) => ~ENABLED (HandlePrev /\ vars' # vars))
    /\ [][(HandlePrev /\ ~isReviewing /\ currentQuestionIndex > 0) =>
            /\ ~isReviewing'
            /\ currentQuestionIndex' = currentQuestionIndex - 1]_vars

\* question 0 of an exam with several questions is shown for answering
\* after the student has worked on the next question
C12_Witness ==
    /\ Mounted
    /\ Len(questions) > 1
    /\ Answering(0)
    /\ QId(2) \in DOMAIN answers

\* C13: a call of prev() in review mode, from handlePrev or from the back
\* button of the review screen, clears the review flag and changes nothing
\* else: the question that was current when review mode was entered is
\* shown for answering, the index is not decremented
C13_PrevLeavesReviewOnly ==
    [][((HandlePrev \/ ExitReview) /\ isReviewing) =>
         /\ ~isReviewing'
         /\ currentQuestionIndex' = currentQuestionIndex
         /\ UNCHANGED <<answers, isSubmitting, showSubmitModal, showSidebar,
                        timeLeft, timerActive, deliveries>>
         /\ UNCHANGED appVars]_vars

\* review mode at a question other than the first, where prev() applies
C13_Witness ==
    /\ Mounted
    /\ isReviewing
    /\ currentQuestionIndex > 0
    /\ ENABLED (HandlePrev /\ ~isReviewing')
    /\ ENABLED (ExitReview /\ ~isReviewing')

\* C14: a call of jumpTo(index) with 0 <= index < length leads, from every
\* state and so from review mode too, to question index shown for
\* answering; a call with an index outside that range changes nothing
C14_JumpToInRangeOnly ==
    /\ [](Mounted =>
            \A index \in {-1, Len(questions)} :
               ~ENABLED (JumpTo(index) /\ vars' # vars))
    /\ [][\A index \in 0..(Len(questions) - 1) :
            JumpTo(index) =>
               /\ ~isReviewing'
               /\ currentQuestionIndex' = index]_vars

\* review mode at the first question of the longest exam, from where a
\* jump to the last question leaves review mode
C14_Witness ==
    /\ Mounted
    /\ Len(questions) = MaxExamQuestions
    /\ isReviewing
    /\ isFirstQuestion
    /\ ENABLED (JumpTo(Len(questions) - 1) /\ ~isReviewing')

\* C15: next, prev, jumpTo and enterReview leave the Answer Store as it is
C15_NavigationKeepsAnswers ==
    [][(HandleNext \/ HandlePrev \/ GoToQuestion \/ EnterReview
          \/ ExitReview) => answers' = answers]_vars

\* every question of the longest exam answered, and review mode entered
C15_Witness ==
    /\ Mounted
    /\ Len(questions) = MaxExamQuestions
    /\ DOMAIN answers = QuestionIds(questions)
    /\ isReviewing

\* C16: setAnswer(questionId, value) overwrites without condition: whatever
\* the store holds, every value of the widget can be written and is what
\* getAnswer returns afterwards; the entries of the other questions stay
\* as they are; and a key enters the store through setAnswer only
C16_SetAnswerOverwrites ==
    /\ []((Mounted /\ ~isReviewing) =>
            \A val \in WidgetValues(currentQ) :
               ENABLED (AnswerChange /\ Get(answers', currentQ.id) = val))
    /\ [][AnswerChange =>
            \A k \in QuestionIds(questions) \ {currentQ.id} :
               Get(answers', k) = Get(answers, k)]_vars
    /\ [][DOMAIN answers' # DOMAIN answers =>
            /\ AnswerChange
            /\ DOMAIN answers' = DOMAIN answers \cup {currentQ.id}]_vars

\* the first question holds one letter, the second question holds an
\* answer too, and the other letter can be written over the first
C16_Witness ==
    /\ Mounted
    /\ Answering(0)
    /\ Get(answers, QId(1)) = Str("A")
    /\ QId(2) \in DOMAIN answers
    /\ ENABLED (AnswerChange /\ Get(answers', QId(1)) = Str("B"))

\* C17: whatever answer changes were made, clearing a text answer among
\* them, no entry of the Answer Store holds null or the empty string
C17_NoEmptyEntries ==
    \A k \in DOMAIN answers : answers[k] \notin {Null, Str("")}

\* C18: the timer starts at 2700, a tick takes exactly 1 from it while it
\* is above 0, and it stops at 0: timeLeft is always within 0 .. 2700 and
\* never goes up
C18_TimerCountsDown ==
    /\ timeLeft = 2700
    /\ [](timeLeft \in 0..2700)
    /\ [][(TimerTick /\ timeLeft > 0) => timeLeft' = timeLeft - 1]_vars
    /\ [][(TimerTick /\ timeLeft = 0) => timeLeft' = 0]_vars
    /\ [][timeLeft' <= timeLeft]_vars

\* the countdown has run out on the mounted screen, and the callback has
\* fired once more at zero
C18_Witness ==
    /\ Mounted
    /\ timeLeft = 0
    /\ ~timerActive

\* C19: once the submission was delivered and the view has left
\* STUDENT_EXAM, the interval is cancelled: no tick can fire, and the
\* timer does not move
C19_NoTickAfterTeardown ==
    /\ [](~Mounted => ~ENABLED TimerTick)
    /\ [][~Mounted => UNCHANGED <<timeLeft, timerActive>>]_vars

\* the exam screen was torn down by a delivered submission while time was
\* left on the timer
C19_Witness ==
    /\ ~Mounted
    /\ submission # Null
    /\ timeLeft > 0
    /\ timeLeft < ExamDuration

\* C20: the timer enforces nothing when it reaches 0: no tick creates a
\* submission, arms one or sets the submitting flag, and with timeLeft = 0
\* every widget value can still be stored, next, prev, jumpTo and
\* enterReview still act, and the summary can still be opened, confirmed
\* and delivered
C20_TimeUpEnforcesNothing ==
    /\ [][TimerTick =>
            UNCHANGED <<submission, currentView, isSubmitting, deliveries,
                        showSubmitModal>>]_vars
    /\ []((Mounted /\ timeLeft = 0) =>
            /\ ~isReviewing =>
                 \A val \in WidgetValues(currentQ) :
                    ENABLED (AnswerChange
                               /\ Get(answers', currentQ.id) = val)
            /\ ENABLED (HandleNext
                          /\ IF isLastQuestion THEN isReviewing'
                             ELSE currentQuestionIndex'
                                     = currentQuestionIndex + 1)
            /\ (isReviewing \/ ~isFirstQuestion) =>
                 ENABLED (HandlePrev /\ vars' # vars)
            /\ \A index \in 0..(Len(questions) - 1) :
                 ENABLED (JumpTo(index) /\ ~isReviewing'
                            /\ currentQuestionIndex' = index)
            /\ ENABLED (EnterReview /\ isReviewing')
            /\ ~isSubmitting => ENABLED (HandlePreSubmit /\ showSubmitModal')
            /\ showSubmitModal =>
                 ENABLED (HandleConfirmSubmit /\ isSubmitting'
                            /\ deliveries' # <<>>)
            /\ deliveries # <<>> =>
                 ENABLED (DeliverSubmission /\ submission' # Null))

\* the time is up, nothing was submitted, and the summary is open with an
\* answer in the store
C20_Witness ==
    /\ Mounted
    /\ timeLeft = 0
    /\ ~isSubmitting
    /\ submission = Null
    /\ deliveries = <<>>
    /\ showSubmitModal
    /\ answers # NoAnswers

\* the number of calls of onSubmit made or armed in the session
SubmitCalls == Len(deliveries) + (IF submission = Null THEN 0 ELSE 1)

\* C21: in one exam session onSubmit is called at most once, and only
\* after a confirmed submit: a call is armed by handleConfirmSubmit only,
\* and once one is armed or made the summary cannot be opened or confirmed
\* again, whatever the student does; an armed call is never cancelled
C21_SubmittedOnce ==
    /\ [](Mounted => SubmitCalls <= 1)
    /\ [](SubmitCalls > 0 => isSubmitting)
    /\ []((Mounted /\ isSubmitting) =>
            /\ ~showSubmitModal
            /\ ~ENABLED HandlePreSubmit
            /\ ~ENABLED HandleConfirmSubmit)
    /\ [](deliveries # <<>> => ENABLED DeliverSubmission)
    /\ [][Len(deliveries') > Len(deliveries) => HandleConfirmSubmit]_vars
    /\ [][submission' # submission =>
            /\ DeliverSubmission
            /\ isSubmitting
            /\ submission = Null
            /\ deliveries' = <<>>]_vars

\* the one submission was delivered after the student went on changing
\* answers behind the confirmed submit
C21_Witness ==
    /\ ~Mounted
    /\ isSubmitting
    /\ submission # Null
    /\ deliveries = <<>>
    /\ answers # submission.answers

\* C22: the answers of the delivered submission are the Answer Store of
\* the moment of the confirmed submit: handleConfirmSubmit arms a callback
\* that holds the store as it is then, answer changes made before the
\* callback fires leave what it holds alone, and the callback delivers it
C22_DeliversConfirmedAnswers ==
    /\ [][HandleConfirmSubmit =>
            deliveries' = Append(deliveries, answers)]_vars
    /\ [][(deliveries # <<>> /\ ~DeliverSubmission) =>
            Head(deliveries') = Head(deliveries)]_vars
    /\ [][DeliverSubmission => submission'.answers = Head(deliveries)]_vars

\* a submission was delivered whose answers differ from the store the
\* screen was left with
C22_Witness ==
    /\ currentView = "RESULTS"
    /\ submission # Null
    /\ DOMAIN submission.answers # DOMAIN answers

\* C23: no answer change alters a field of a submission that was built, or
\* the answers a callback holds for building one
C23_SnapshotIsolation ==
    /\ [][AnswerChange => UNCHANGED <<submission, deliveries>>]_vars
    /\ [][(submission # Null) => submission' = submission]_vars

\* an answer change can still be made while the callback is armed
C23_Witness ==
    /\ Mounted
    /\ isSubmitting
    /\ deliveries # <<>>
    /\ ENABLED (AnswerChange /\ answers' # Head(deliveries))

\* C24: a confirmed submit needs no answer: with an empty Answer Store the
\* confirm step is enabled and arms the callback, which delivers a
\* submission with an empty answers map and moves the App to RESULTS
C24_EmptySubmissionAccepted ==
    /\ []((Mounted /\ showSubmitModal /\ answers = NoAnswers) =>
            ENABLED (HandleConfirmSubmit /\ deliveries' = <<NoAnswers>>))
    /\ [][DeliverSubmission =>
            /\ currentView' = "RESULTS"
            /\ submission' # Null
            /\ submission'.answers = Head(deliveries)]_vars

\* an empty submission was delivered from a store that was still empty
C24_Witness ==
    /\ currentView = "RESULTS"
    /\ submission # Null
    /\ submission.answers = NoAnswers
    /\ answers = NoAnswers

-----------------------------------------------------------------------------
(* Rendering the answer row of a one-question assignment.                  *)

\* the texts of the options
OptionX == Text(<<"x">>)
OptionY == Text(<<"y">>)
OptionZ == Text(<<"z">>)
OptionW == Text(<<"w">>)

\* the options fields the questions are given
OptionLists ==
    {Undefined, Arr(<<>>), Arr(<<OptionX>>),
     Arr(<<Text(<<>>), OptionY>>),
     Arr(<<OptionX, OptionY, OptionZ, OptionW>>)}

\* the questions whose row is rendered
RowQuestions ==
    {[id |-> QId(1), type |-> ty, options |-> op, correctAnswer |-> ca] :
        ty \in {"MCQ", "TRUE_FALSE", "SHORT_ANSWER"},
        op \in OptionLists,
        ca \in Tokens \cup {Undefined}}

\* the Answer Store with the one answer key, or without an answer
RowAnswers(key) ==
    IF key = Undefined THEN NoAnswers ELSE Put(NoAnswers, QId(1), key)

InitDisplay ==
    /\ \E q \in RowQuestions : questions = <<q>>
    /\ \E key \in Tokens \cup {Undefined} :
          /\ answers = RowAnswers(key)
          /\ submission = Submission(RowAnswers(key), Num(1))
    /\ reply = NoReply
    /\ outcome = NoOutcome
    /\ previous = NoOutcome
    /\ runs = 0
    /\ feedbackMap = NewFeedbackMap
    /\ earnedScore = 0
    /\ ResultsIdle
    /\ isSubmitting = FALSE
    /\ currentQuestionIndex = 0
    /\ isReviewing = TRUE
    /\ showSubmitModal = FALSE
    /\ showSidebar = FALSE
    /\ timeLeft = ExamDuration
    /\ timerActive = FALSE
    /\ deliveries = <<>>
    /\ currentView = "RESULTS"
    /\ DisplayIdle
    /\ AssignedTo(questions)

\* the review list of StudentExam renders the row of the question
RenderReviewRow ==
    /\ reviewRow = NotRendered
    /\ reviewRow' = getAnswerDisplay(questions, answers, questions[1].id)
    /\ UNCHANGED resultRow
    /\ UNCHANGED <<gradeVars, resultVars, examVars, appVars, teacherVars,
                   adminVars>>

\* the detail list of ResultAnalysis renders the row of the question
RenderResultRow ==
    /\ resultRow = NotRendered
    /\ resultRow' = ResultRowOf(questions[1], submission)
    /\ UNCHANGED reviewRow
    /\ UNCHANGED <<gradeVars, resultVars, examVars, appVars, teacherVars,
                   adminVars>>

NextDisplay ==
    \/ RenderReviewRow
    \/ RenderResultRow

SpecDisplay == InitDisplay /\ [][NextDisplay]_vars

-----------------------------------------------------------------------------
(* Claims about the answer rows.                                           *)

\* the reference of C25: absent for an absent or empty token; the token
\* for a question that is not multiple-choice or has no options list;
\* else the option at the position of the upper-cased, trimmed token among
\* A, B, C, D when the options list has an entry there, and the token
\* otherwise
resolveDisplayText(q, token) ==
    IF token.t \in {"undefined", "null"} \/ token.v = <<>> THEN Null
    ELSE IF q.type # "MCQ" \/ q.options.t # "array" THEN token
    ELSE LET p == LetterIndexOf(ToUpperCase(Trim(token.v)))
         IN  IF p # -1 /\ p + 1 \in DOMAIN q.options.v
             THEN q.options.v[p + 1]
             ELSE token

\* the text a rendered review row resolves the answer to
RowText(row) == IF row.kind = "notDone" THEN Null ELSE row.text

\* getMCQText agrees with the reference on the two tokens of the row
GetMCQTextAgrees ==
    resultRow # NotRendered =>
       LET q == questions[1]
       IN  /\ getMCQText(q, Get(submission.answers, q.id))
                = resolveDisplayText(q, Get(submission.answers, q.id))
           /\ getMCQText(q, q.correctAnswer)
                = resolveDisplayText(q, q.correctAnswer)

\* getAnswerDisplay agrees with the reference on the stored answer
GetAnswerDisplayAgrees ==
    reviewRow # NotRendered =>
       RowText(reviewRow)
          = resolveDisplayText(questions[1], Get(answers, questions[1].id))

\* C25: for every question and token, the text an answer row resolves the
\* token to is the one the reference gives, in the detail list of the
\* results screen and in the review list of the exam screen
C25_ResolvesAsReference == GetMCQTextAgrees /\ GetAnswerDisplayAgrees

\* C26: for a multiple-choice or true/false question the results screen
\* marks the row correct exactly when the stored answer token and the
\* correctAnswer token are equal as they are; what the two are shown as
\* plays no part
C26_MarkComparesRawTokens ==
    (resultRow # NotRendered
        /\ questions[1].type \in {"MCQ", "TRUE_FALSE"}) =>
       (resultRow.mark = "correct"
           <=> Get(submission.answers, questions[1].id)
                  = questions[1].correctAnswer)

\* a multiple-choice row marked wrong although both tokens are shown as
\* the same option
C26_Witness ==
    /\ resultRow # NotRendered
    /\ questions[1].type = "MCQ"
    /\ resultRow.mark = "wrong"
    /\ resultRow.yours = resultRow.reference
    /\ resultRow.yours = OptionX

-----------------------------------------------------------------------------
(* TeacherDashboard: generation of the questions, in AI mode.  The upload  *)
(* mode and the curriculum controls are not part of the model.             *)

\* one question as the collaborator writes it
RawQuestion(ty) == [type |-> ty]

\* the question lists the collaborator is given to write: the i-th question
\* is of the i-th type
GeneratedLists ==
    {[i \in 1..n |-> RawQuestion(TypeOf(i))] : n \in 0..MaxGenerated}

\* ai.models.generateContent resolved with a response whose text is `text`
\* and whose parsed object has the field questions
GenReply(text, qs) == [kind |-> "text", text |-> text, questions |-> qs]

\* ai.models.generateContent rejected
GenThrow == [kind |-> "throw", text |-> Undefined, questions |-> Undefined]

\* the response texts the collaborator is given to return
GenTexts ==
    {Undefined, Str(ObjectText), Str(<<"w">>), Str(<<"n">>),
     Str(<<"w", "{", "m", "}">>), Str(<<"n", "{", "}">>)}

\* the replies the collaborator gives to generateAssignment
GenReplies ==
    {GenThrow}
       \cup {GenReply(text, qs) :
               text \in GenTexts,
               qs \in {Undefined, Str("x")} \cup {Arr(l) : l \in GeneratedLists}}

\* JSON.parse in generateAssignment: the parsed value, or a SyntaxError
ParseGenerated(text, rep) ==
    IF text = EmptyObjectText
    THEN [ok |-> TRUE, value |-> [t |-> "object", questions |-> Undefined]]
    ELSE IF text = ObjectText
    THEN [ok |-> TRUE, value |-> [t |-> "object", questions |-> rep.questions]]
    ELSE IF text = <<"n">>
    THEN [ok |-> TRUE, value |-> Null]
    ELSE [ok |-> FALSE]

\* .map(q => ({ ...q, id: generateUniqueId() })): every question gets an id
\* of its own
WithUniqueIds(qs) == [i \in DOMAIN qs |-> [id |-> QId(i), type |-> qs[i].type]]

\* throw new Error("Failed to generate questions via AI. ...")
GenerationFailed == [kind |-> "error"]

\* generateAssignment(...) returning an empty list where it throws
generateAssignmentReturnsDefault(rep) ==
    IF rep.kind = "throw" THEN Returned(<<>>)
    ELSE LET parsed == ParseGenerated(cleanJsonText(ResponseText(rep)), rep)
         IN  IF ~parsed.ok THEN Returned(<<>>)
             ELSE IF parsed.value.t # "object" THEN Returned(<<>>)
             ELSE LET qs == OrElse(parsed.value.questions, Arr(<<>>))
                  IN  IF qs.t # "array" THEN Returned(<<>>)
                      ELSE Returned(WithUniqueIds(qs.v))

\* generateAssignment(...): what the promise settles with
generateAssignment(rep) ==
    IF rep.kind = "throw" THEN GenerationFailed
    ELSE LET parsed == ParseGenerated(cleanJsonText(ResponseText(rep)), rep)
         IN  IF ~parsed.ok THEN GenerationFailed
             ELSE IF parsed.value.t # "object" THEN GenerationFailed
             ELSE LET qs == OrElse(parsed.value.questions, Arr(<<>>))
                  IN  IF qs.t # "array" THEN GenerationFailed
                      ELSE Returned(WithUniqueIds(qs.v))

\* the dashboard is rendered
DashboardShown == currentView = "TEACHER_DASHBOARD" /\ isAdmin

\* handleConfigChange(type, field, value)
handleConfigChange(prev, ty, field, value) ==
    [prev EXCEPT ![ty] = [@ EXCEPT ![field] = value]]

\* the types with cfg.selected && cfg.count > 0
ActiveConfigs ==
    {ty \in DOMAIN typeConfigs :
        typeConfigs[ty].selected /\ typeConfigs[ty].count > 0}

\* what the dashboard actions leave alone
DashboardFrame ==
    UNCHANGED <<gradeVars, resultVars, examVars, appVars, displayVars,
                adminVars>>

\* the checkbox of a type is clicked
ConfigSelect ==
    /\ DashboardShown
    /\ \E ty \in DOMAIN typeConfigs :
          typeConfigs' = handleConfigChange(typeConfigs, ty, "selected",
                                            ~typeConfigs[ty].selected)
    /\ UNCHANGED <<dashLoading, generatedQuestions, generating, lastAlert>>
    /\ DashboardFrame

\* the count field of a selected type is set: parseInt(value) || 0
ConfigCount ==
    /\ DashboardShown
    /\ \E ty \in DOMAIN typeConfigs :
          /\ typeConfigs[ty].selected
          /\ \E value \in {0, InitialTypeConfigs[ty].count} :
                typeConfigs' = handleConfigChange(typeConfigs, ty, "count",
                                                  value)
    /\ UNCHANGED <<dashLoading, generatedQuestions, generating, lastAlert>>
    /\ DashboardFrame

\* handleGenerate() without the check of the active configs
HandleGenerateUnchecked ==
    /\ DashboardShown
    /\ ~dashLoading
    /\ dashLoading' = TRUE
    /\ generating' = generating + 1
    /\ UNCHANGED <<typeConfigs, generatedQuestions, lastAlert>>
    /\ DashboardFrame

\* handleGenerate(), up to its await, from the button that loading disables
HandleGenerate ==
    /\ DashboardShown
    /\ ~dashLoading
    /\ IF ActiveConfigs = {}
       THEN /\ lastAlert' = "empty"
            /\ UNCHANGED <<dashLoading, generating>>
       ELSE /\ dashLoading' = TRUE
            /\ generating' = generating + 1
            /\ UNCHANGED lastAlert
    /\ UNCHANGED <<typeConfigs, generatedQuestions>>
    /\ DashboardFrame

\* the await of handleGenerate settles with the reply rep: try or catch, then
\* finally
GenerateSettled(rep) ==
    /\ generating > 0
    /\ IF generateAssignment(rep).kind = "result"
       THEN /\ generatedQuestions' = generateAssignment(rep).value
            /\ UNCHANGED lastAlert
       ELSE /\ lastAlert' = "failed"
            /\ UNCHANGED generatedQuestions
    /\ dashLoading' = FALSE
    /\ generating' = generating - 1
    /\ UNCHANGED typeConfigs
    /\ DashboardFrame

\* the await of handleGenerate resolves
GenerateResolved ==
    \E rep \in GenReplies :
        /\ generateAssignment(rep).kind = "result"
        /\ GenerateSettled(rep)

\* the await of handleGenerate rejects
GenerateRejected ==
    \E rep \in GenReplies :
        /\ generateAssignment(rep).kind = "error"
        /\ GenerateSettled(rep)

\* a handleAssign(newAssignment) that goes straight to the exam
handleAssignStraightToExam(newAssignment) ==
    /\ assignment' = newAssignment
    /\ currentView' = "STUDENT_EXAM"

\* handleAssign(newAssignment) of the App
handleAssign(newAssignment) ==
    /\ assignment' = newAssignment
    /\ currentView' = "SHARE_LINK"

\* the dashboard is unmounted or mounted: its state is that of a fresh mount
\* and a call still in flight reaches no state any more
RemountDashboard ==
    /\ dashLoading' = FALSE
    /\ typeConfigs' = InitialTypeConfigs
    /\ generatedQuestions' = <<>>
    /\ generating' = 0
    /\ lastAlert' = "none"

\* handleConfirmAssign(), from the button of the preview: the screens that
\* follow get the questions of the assignment and the dashboard is unmounted
HandleConfirmAssign ==
    /\ DashboardShown
    /\ Len(generatedQuestions) > 0
    /\ \E id \in AssignmentIds :
          handleAssign([NewAssignment(generatedQuestions) EXCEPT !.id = id])
    /\ questions' = generatedQuestions
    /\ RemountDashboard
    /\ UNCHANGED <<submission, studentInfo, isAdmin>>
    /\ UNCHANGED <<reply, outcome, previous, runs, feedbackMap, earnedScore>>
    /\ UNCHANGED <<resultVars, examVars, displayVars>>

\* the App on the dashboard, nothing assigned yet
InitTeacher ==
    /\ questions = <<>>
    /\ reply = NoReply
    /\ outcome = NoOutcome
    /\ previous = NoOutcome
    /\ runs = 0
    /\ feedbackMap = NewFeedbackMap
    /\ earnedScore = 0
    /\ ResultsIdle
    /\ answers = NoAnswers
    /\ isSubmitting = FALSE
    /\ currentQuestionIndex = 0
    /\ isReviewing = FALSE
    /\ showSubmitModal = FALSE
    /\ showSidebar = FALSE
    /\ timeLeft = 0
    /\ timerActive = FALSE
    /\ deliveries = <<>>
    /\ DisplayIdle
    /\ DashboardMounted
    /\ currentView = "TEACHER_DASHBOARD"
    /\ assignment = Null
    /\ studentInfo = Null
    /\ submission = Null
    /\ isAdmin = TRUE

NextTeacher ==
    \/ ConfigSelect
    \/ ConfigCount
    \/ HandleGenerate
    \/ GenerateResolved
    \/ GenerateRejected
    \/ HandleConfirmAssign

SpecTeacher == InitTeacher /\ [][NextTeacher]_vars

-----------------------------------------------------------------------------
(* Claims about the generation of the questions.                           *)

\* C27: while no question type is selected with a count above zero, a click
\* on the generate button makes no call to the collaborator, does not set
\* the loading flag and leaves the generated list as it is.
C27_EmptyConfigRejectedLocally ==
    [](ActiveConfigs = {}
         => ~ENABLED (/\ HandleGenerate
                      /\ <<generating, dashLoading, generatedQuestions>>'
                            # <<generating, dashLoading, generatedQuestions>>))

\* C27 happens: the click was rejected with no active config, after a list
\* had been generated, and the list is still there
C27_Witness ==
    /\ lastAlert = "empty"
    /\ ActiveConfigs = {}
    /\ ~dashLoading
    /\ generating = 0
    /\ generatedQuestions # <<>>

\* the response text is there and is not JSON as it stands
RawUnparsable(rep) ==
    /\ rep.kind = "text"
    /\ rep.text.t = "string"
    /\ ~ParseGenerated(rep.text.v, rep).ok

\* the text left after cleaning is not JSON, or it is JSON that is no object
\* or whose questions are there and are no list
CleanedUnparsable(rep) ==
    /\ rep.kind = "text"
    /\ LET parsed == ParseGenerated(cleanJsonText(ResponseText(rep)), rep)
       IN  \/ ~parsed.ok
           \/ parsed.value.t # "object"
           \/ /\ Truthy(parsed.value.questions)
              /\ parsed.value.questions.t # "array"

\* nothing was created and the generate button works again
NothingCreated ==
    /\ generatedQuestions' = generatedQuestions
    /\ assignment' = assignment
    /\ dashLoading' = FALSE
    /\ (DashboardShown /\ ~dashLoading)'

-----------------------------------------------------------------------------
(* The App: the views from the dashboard to the results and back.  The     *)
(* setup screen is passed; the email given there is a text that is not     *)
(* blank.                                                                  *)

\* the email the teacher gave on the setup screen
Email == Str("teacher@school.edu.vn")

\* isImmersiveMode: the header with the logo and the mode button is hidden
isImmersiveMode ==
    currentView = "STUDENT_LOGIN" \/ currentView = "STUDENT_EXAM"

\* the results screen is rendered
ResultsShown ==
    currentView = "RESULTS" /\ assignment # Null /\ submission # Null

\* an exam screen that takes over the timer it finds
MountExamKeepsTimer ==
    /\ answers' = NoAnswers
    /\ isSubmitting' = FALSE
    /\ currentQuestionIndex' = 0
    /\ isReviewing' = FALSE
    /\ showSubmitModal' = FALSE
    /\ showSidebar' = FALSE
    /\ timeLeft' = timeLeft
    /\ timerActive' = TRUE
    /\ deliveries' = <<>>

\* the exam screen is mounted: useState initial values and the timer effect
MountExam ==
    /\ answers' = NoAnswers
    /\ isSubmitting' = FALSE
    /\ currentQuestionIndex' = 0
    /\ isReviewing' = FALSE
    /\ showSubmitModal' = FALSE
    /\ showSidebar' = FALSE
    /\ timeLeft' = ExamDuration
    /\ timerActive' = TRUE
    /\ deliveries' = <<>>

\* no exam screen any more: its state is gone
DiscardExam ==
    /\ answers' = NoAnswers
    /\ isSubmitting' = FALSE
    /\ currentQuestionIndex' = 0
    /\ isReviewing' = FALSE
    /\ showSubmitModal' = FALSE
    /\ showSidebar' = FALSE
    /\ timeLeft' = 0
    /\ timerActive' = FALSE
    /\ deliveries' = <<>>

\* no results screen any more: its state is gone and its calls and timers
\* reach no state any more
DiscardResults ==
    /\ reply' = NoReply
    /\ outcome' = NoOutcome
    /\ previous' = NoOutcome
    /\ runs' = 0
    /\ feedbackMap' = NewFeedbackMap
    /\ earnedScore' = 0
    /\ result' = Null
    /\ loading' = TRUE
    /\ errorMsg' = Null
    /\ emailStatus' = "idle"
    /\ pending' = 0
    /\ effectDone' = FALSE
    /\ emailTimers' = 0
    /\ lastEvent' = "construct"
    /\ attempts' = 0
    /\ UNCHANGED teacherEmail

\* a handleOpenStudentLogin() that drops the assignment
HandleOpenStudentLoginDropsAssignment ==
    /\ currentView = "SHARE_LINK"
    /\ assignment # Null
    /\ isAdmin' = FALSE
    /\ currentView' = "STUDENT_LOGIN"
    /\ assignment' = Null
    /\ UNCHANGED <<studentInfo, submission>>
    /\ UNCHANGED <<gradeVars, resultVars, examVars, displayVars, teacherVars>>

\* handleOpenStudentLogin(), from the link or the button of the share screen
HandleOpenStudentLogin ==
    /\ currentView = "SHARE_LINK"
    /\ assignment # Null
    /\ isAdmin' = FALSE
    /\ currentView' = "STUDENT_LOGIN"
    /\ UNCHANGED <<assignment, studentInfo, submission>>
    /\ UNCHANGED <<gradeVars, resultVars, examVars, displayVars, teacherVars>>

\* a form that is sent whatever stands in its fields
HandleStudentLoginUnchecked ==
    /\ currentView = "STUDENT_LOGIN"
    /\ assignment # Null
    /\ \E name \in LoginNames, className \in LoginClasses :
          studentInfo' = [name |-> name, className |-> className]
    /\ currentView' = "STUDENT_EXAM"
    /\ MountExam
    /\ UNCHANGED <<assignment, isAdmin, submission>>
    /\ UNCHANGED <<gradeVars, resultVars, displayVars, teacherVars>>

\* handleStudentLogin(name, className), from the login form filled with a
\* name and a class that are not blank; the exam screen is mounted
HandleStudentLogin ==
    /\ currentView = "STUDENT_LOGIN"
    /\ assignment # Null
    /\ \E name \in LoginNames, className \in LoginClasses :
          /\ Trim(name) # <<>>
          /\ Trim(className) # <<>>
          /\ studentInfo' = [name |-> name, className |-> className]
    /\ currentView' = "STUDENT_EXAM"
    /\ MountExam
    /\ UNCHANGED <<assignment, isAdmin, submission>>
    /\ UNCHANGED <<gradeVars, resultVars, displayVars, teacherVars>>

\* the object the armed callback builds from the props the App gave to this
\* exam screen: assignment.id, studentInfo.name and studentInfo.className
SessionSubmission(ans, at) ==
    [Submission(ans, at) EXCEPT !.assignmentId = assignment.id,
                                !.studentName = studentInfo.name,
                                !.studentClass = studentInfo.className]

\* the armed callback fires after 500 ms: onSubmit(...) reaches the App, the
\* view leaves STUDENT_EXAM, the exam screen is unmounted and its state is
\* gone
SubmitAndUnmount ==
    /\ Mounted
    /\ deliveries # <<>>
    /\ \E at \in ClockReadings :
          handleSubmitExam(SessionSubmission(Head(deliveries), at))
    /\ DiscardExam
    /\ ExamFrame

\* resetApp(), from the logo of the header; the screen that was shown is
\* unmounted, unless it is the dashboard
ResetApp ==
    /\ ~isImmersiveMode
    /\ assignment' = Null
    /\ submission' = Null
    /\ studentInfo' = Null
    /\ currentView' = "TEACHER_DASHBOARD"
    /\ isAdmin' = TRUE
    /\ IF DashboardShown THEN UNCHANGED teacherVars ELSE RemountDashboard
    /\ questions' = <<>>
    /\ DiscardResults
    /\ DiscardExam
    /\ UNCHANGED displayVars

\* a mode button that is on the screen in every view
ToggleAdminAnywhere ==
    /\ isAdmin' = ~isAdmin
    /\ IF currentView = "TEACHER_DASHBOARD"
       THEN RemountDashboard
       ELSE UNCHANGED teacherVars
    /\ UNCHANGED <<assignment, studentInfo, appVars>>
    /\ UNCHANGED <<gradeVars, resultVars, examVars, displayVars>>

\* setIsAdmin(!isAdmin), from the mode button of the header; on the
\* dashboard view the dashboard is unmounted or mounted
ToggleAdmin ==
    /\ ~isImmersiveMode
    /\ isAdmin' = ~isAdmin
    /\ IF currentView = "TEACHER_DASHBOARD"
       THEN RemountDashboard
       ELSE UNCHANGED teacherVars
    /\ UNCHANGED <<assignment, studentInfo, appVars>>
    /\ UNCHANGED <<gradeVars, resultVars, examVars, displayVars>>

\* the App after the setup screen
InitApp ==
    /\ questions = <<>>
    /\ reply = NoReply
    /\ outcome = NoOutcome
    /\ previous = NoOutcome
    /\ runs = 0
    /\ feedbackMap = NewFeedbackMap
    /\ earnedScore = 0
    /\ result = Null
    /\ loading = TRUE
    /\ errorMsg = Null
    /\ emailStatus = "idle"
    /\ pending = 0
    /\ effectDone = FALSE
    /\ emailTimers = 0
    /\ teacherEmail = Email
    /\ lastEvent = "construct"
    /\ attempts = 0
    /\ answers = NoAnswers
    /\ isSubmitting = FALSE
    /\ currentQuestionIndex = 0
    /\ isReviewing = FALSE
    /\ showSubmitModal = FALSE
    /\ showSidebar = FALSE
    /\ timeLeft = 0
    /\ timerActive = FALSE
    /\ deliveries = <<>>
    /\ DisplayIdle
    /\ DashboardMounted
    /\ currentView = "TEACHER_DASHBOARD"
    /\ assignment = Null
    /\ studentInfo = Null
    /\ submission = Null
    /\ isAdmin = TRUE

NextApp ==
    \/ NextTeacher
    \/ HandleOpenStudentLogin
    \/ HandleStudentLogin
    \/ AnswerChange
    \/ GoToQuestion
    \/ HandleNext
    \/ HandlePrev
    \/ EnterReview
    \/ ExitReview
    \/ ToggleSidebar
    \/ CloseSidebar
    \/ HandlePreSubmit
    \/ CloseSubmitModal
    \/ HandleConfirmSubmit
    \/ EarlyTimerTick
    \/ SubmitAndUnmount
    \/ (ResultsShown /\ NextResults)
    \/ ResetApp
    \/ ToggleAdmin

SpecApp == InitApp /\ [][NextApp]_vars

-----------------------------------------------------------------------------
(* Claims about the App.                                                   *)

\* C29: from the step that assigns it until resetApp, the assignment and
\* its questions stay as they are: a step that changes the assignment that
\* is there, or the questions the screens are given, is a step of resetApp,
\* and the questions the screens are given are those of the assignment.
C29_AssignmentImmutable ==
    /\ [][(assignment # Null /\ ~ResetApp) =>
            /\ assignment' = assignment
            /\ questions' = questions]_vars
    /\ [](assignment # Null => questions = assignment.questions)

\* C29 happens: the assignment went through the share, login, exam and
\* submission steps and was graded, and its two questions are there
C29_Witness ==
    /\ currentView = "RESULTS"
    /\ result # Null
    /\ submission # Null
    /\ submission.answers # NoAnswers
    /\ assignment = NewAssignment(ExamQuestions(2))
    /\ questions = assignment.questions

-----------------------------------------------------------------------------
(* Claims about the state of the results screen.                           *)

\* C30: on the results screen, whenever the error message is set the result
\* is null; a failed grading call changes the error message and the loading
\* flag and leaves the result and the email status alone; and a step that
\* changes the result is the step of a call that succeeded, which stores a
\* result that is not null.
C30_NoHalfUpdatedState ==
    /\ [](Truthy(errorMsg) => result = Null)
    /\ [][GradeRejected =>
            /\ UNCHANGED <<result, emailStatus, emailTimers>>
            /\ errorMsg' = ErrorMessage
            /\ loading' = FALSE]_vars
    /\ [][result' # result => (GradeResolved /\ result' # Null)]_vars

\* C30 happens: the first call failed, the retry failed again, and the
\* error message is on a screen without a result
C30_Witness ==
    /\ attempts >= 2
    /\ lastEvent = "rejected"
    /\ pending = 0
    /\ ~loading
    /\ Truthy(errorMsg)
    /\ result = Null

-----------------------------------------------------------------------------
(* The results screen with a collaborator that settles every call.         *)

\* the mount effect runs after the first render, and a call that was issued
\* is settled: it returns or it throws
SpecResultsLive ==
    /\ InitResults
    /\ [][NextResults]_vars
    /\ WF_vars(MountEffect)
    /\ WF_vars(GradeResolved \/ GradeRejected)

\* the screen is at an interactive point: the result is shown, or the error
\* message with the retry button
Interactive ==
    /\ ~loading
    /\ \/ result # Null /\ Screen = "results"
       \/ Truthy(errorMsg) /\ RetryShown

\* C31: with a collaborator that settles every call, a state in which the
\* loading flag is raised is always followed by a state in which it is
\* lowered and either the result is set or the error message is shown with
\* the retry button.
C31_GradingReturnsControl == loading ~> Interactive

\* C31 happens: a call failed, the retry was clicked and raised the loading
\* flag again, and its call returned the result that is shown
C31_Witness ==
    /\ attempts >= 2
    /\ lastEvent = "resolved"
    /\ pending = 0
    /\ Interactive
    /\ result # Null

-----------------------------------------------------------------------------
(* Claims about the confirmation summary, the counts and the timer of the  *)
(* exam screen.                                                            *)

\* C32: a submission is delivered through the two steps only: the summary
\* is opened by handlePreSubmit only, a callback is armed by
\* handleConfirmSubmit only and from the open summary only, and a
\* submission is delivered from an armed callback only; closing the summary
\* changes nothing but the summary flag; and while nothing is being
\* submitted handlePreSubmit is available, for answering and in review.
C32_TwoStepConfirmation ==
    /\ [][(~showSubmitModal /\ showSubmitModal') => HandlePreSubmit]_vars
    /\ [][Len(deliveries') > Len(deliveries) =>
            (showSubmitModal /\ HandleConfirmSubmit)]_vars
    /\ [][submission' # submission => deliveries # <<>>]_vars
    /\ [][CloseSubmitModal =>
            UNCHANGED <<answers, currentQuestionIndex, isReviewing,
                        isSubmitting, deliveries, submission, currentView>>]_vars
    /\ []((Mounted /\ ~isSubmitting) =>
            ENABLED (HandlePreSubmit /\ showSubmitModal'))

\* C32 happens: the summary is open in review mode over a store with an
\* answer, nothing is armed, and it can be closed or confirmed
C32_Witness ==
    /\ Mounted
    /\ isReviewing
    /\ showSubmitModal
    /\ ~isSubmitting
    /\ deliveries = <<>>
    /\ answers # NoAnswers
    /\ ENABLED CloseSubmitModal
    /\ ENABLED HandleConfirmSubmit

\* Object.keys(answers).length
answeredCount == Cardinality(DOMAIN answers)

\* assignment.questions.length
totalCount == Len(questions)

\* totalCount - answeredCount
unansweredCount == totalCount - answeredCount

\* !!answers[q.id]: the answered mark of a question in the review list and
\* in the sidebar
isAnswered(q) == Truthy(Get(answers, q.id))

\* the questions that carry the answered mark
MarkedAnswered == {i \in 1..Len(questions) : isAnswered(questions[i])}

\* C33: on the exam screen the answered count equals the number of
\* questions that carry the answered mark, and the unanswered count the
\* number of questions that do not.
C33_CountsAgreeWithMarks ==
    Mounted =>
        /\ answeredCount = Cardinality(MarkedAnswered)
        /\ unansweredCount = Len(questions) - Cardinality(MarkedAnswered)

\* C34: the timer is independent of the rest of the session: a tick leaves
\* the Answer Store, the index, the review, summary and submitting flags
\* and the armed callbacks alone; a step that changes timeLeft is a tick;
\* and on the exam screen a tick is enabled whenever timeLeft > 0, whatever
\* the other state is.
C34_TimerIndependent ==
    /\ [][TimerTick =>
            UNCHANGED <<answers, currentQuestionIndex, isReviewing,
                        showSubmitModal, isSubmitting, showSidebar,
                        deliveries, submission, currentView>>]_vars
    /\ [][timeLeft' # timeLeft => TimerTick]_vars
    /\ []((Mounted /\ timeLeft > 0) =>
            ENABLED (TimerTick /\ timeLeft' = timeLeft - 1))

\* C34 happens: time has passed and still passes in review mode with the
\* summary open, and again while a confirmed submission waits for delivery
C34_Witness ==
    /\ Mounted
    /\ timeLeft > 0
    /\ timeLeft < ExamDuration
    /\ ENABLED TimerTick
    /\ \/ isReviewing /\ showSubmitModal /\ answers # NoAnswers
       \/ isSubmitting /\ deliveries # <<>>

-----------------------------------------------------------------------------
(* gradeSubmission on assessment entries whose score is no number.         *)

\* the scores the collaborator is given to write into an entry: numbers, a
\* missing score, null, and strings
EntryScores ==
    <<Num(0), Num(10), Undefined, Null, Text(<<>>), Text(<<"a">>), Text(<<"8">>)>>

\* the collaborator answers with one entry per question, in order, with any
\* of the scores
ScoreInputs ==
    \E n \in 1..MaxLooseQuestions :
    \E sc \in [1..n -> DOMAIN EntryScores] :
        /\ questions = Questions(n)
        /\ reply = TextReply(Str(ObjectText),
                      Members(Arr([i \in 1..n |->
                                      Item(Str(QId(i)), EntryScores[sc[i]],
                                           Str("A"))]),
                              Str("C")))

InitScore ==
    /\ ScoreInputs
    /\ outcome = NoOutcome
    /\ previous = NoOutcome
    /\ runs = 0
    /\ feedbackMap = NewFeedbackMap
    /\ earnedScore = 0
    /\ ResultsIdle
    /\ SessionIdle

NextScore == GradeSubmission

SpecScore == InitScore /\ [][NextScore]_vars

\* the reply with every score that is no number replaced by 0
WithZeroScores(rep) ==
    [rep EXCEPT !.members.assessments.v =
        [i \in DOMAIN @ |->
            IF @[i].score.t = "number" THEN @[i]
            ELSE [@[i] EXCEPT !.score = Num(0)]]]

\* an entry of the reply has a score that is missing or no number
SomeScoreNoNumber ==
    \E i \in 1..Len(reply.members.assessments.v) :
        reply.members.assessments.v[i].score.t # "number"

\* C35: a run on a reply with an entry whose score is missing or no number
\* returns the result it returns on the reply with these scores replaced by
\* 0, and the score of the result is a number.
C35_NonNumericScoreCountsZero ==
    (runs >= 1 /\ SomeScoreNoNumber) =>
        /\ outcome = gradeSubmission(questions, WithZeroScores(reply))
        /\ outcome.value.score # NaN

\* C36: the view changes along the chain TEACHER_DASHBOARD, SHARE_LINK,
\* STUDENT_LOGIN, STUDENT_EXAM, RESULTS only, one step at a time and each
\* step by its handler, or back to TEACHER_DASHBOARD by resetApp: RESULTS
\* is entered from STUDENT_EXAM by a delivered submission only, and
\* STUDENT_EXAM from STUDENT_LOGIN only.
C36_ViewAdvancesAlongChain ==
    [][currentView' # currentView =>
         \/ /\ currentView = "TEACHER_DASHBOARD"
            /\ currentView' = "SHARE_LINK"
            /\ HandleConfirmAssign
         \/ /\ currentView = "SHARE_LINK"
            /\ currentView' = "STUDENT_LOGIN"
            /\ HandleOpenStudentLogin
         \/ /\ currentView = "STUDENT_LOGIN"
            /\ currentView' = "STUDENT_EXAM"
            /\ HandleStudentLogin
         \/ /\ currentView = "STUDENT_EXAM"
            /\ currentView' = "RESULTS"
            /\ SubmitAndUnmount
            /\ submission' # Null
         \/ /\ currentView' = "TEACHER_DASHBOARD"
            /\ ResetApp]_vars

\* C36 happens: the view went along the whole chain, to the results of a
\* student who is logged in
C36_Witness ==
    /\ currentView = "RESULTS"
    /\ studentInfo = StudentInfo
    /\ ~isAdmin
    /\ submission # Null
    /\ effectDone

\* C37: while the view is STUDENT_LOGIN or STUDENT_EXAM neither resetApp nor
\* the mode button is available and isAdmin is false; and a step that
\* leaves STUDENT_EXAM is the delivery of a submission, which leads to
\* RESULTS.
C37_ImmersiveModeIsClosed ==
    /\ [](isImmersiveMode => (~ENABLED ResetApp /\ ~ENABLED ToggleAdmin))
    /\ [](isImmersiveMode => ~isAdmin)
    /\ [][(currentView = "STUDENT_EXAM" /\ currentView' # currentView) =>
            /\ SubmitAndUnmount
            /\ currentView' = "RESULTS"
            /\ submission' # Null]_vars

\* C37 happens: the exam is shown in student mode and is about to be left
\* by the delivery of the confirmed submission
C37_Witness ==
    /\ currentView = "STUDENT_EXAM"
    /\ ~isAdmin
    /\ isSubmitting
    /\ deliveries # <<>>
    /\ ENABLED SubmitAndUnmount

\* C38: whenever the exam screen is entered, for the first assignment and
\* for one assigned after a reset alike, the session starts fresh:
\* question 0 is shown for answering, the Answer Store is empty, timeLeft is
\* 2700, the review, summary and submitting flags are false and no callback
\* is armed.
C38_SessionStartsFresh ==
    [][(currentView # "STUDENT_EXAM" /\ currentView' = "STUDENT_EXAM") =>
         /\ answers' = NoAnswers
         /\ currentQuestionIndex' = 0
         /\ ~isReviewing'
         /\ ~isSubmitting'
         /\ ~showSubmitModal'
         /\ timeLeft' = 2700
         /\ timerActive'
         /\ deliveries' = <<>>
         /\ submission' = Null]_vars

\* C38 happens: an exam on two questions has just been entered
C38_Witness ==
    /\ currentView = "STUDENT_EXAM"
    /\ Len(questions) = 2
    /\ Answering(0)
    /\ answers = NoAnswers
    /\ timeLeft = ExamDuration
    /\ ~isSubmitting
    /\ submission = Null

\* C39: in every application state the data the shown view needs is there:
\* on SHARE_LINK, STUDENT_LOGIN, STUDENT_EXAM and RESULTS the assignment is
\* not null; on STUDENT_EXAM the student info is not null and its name and
\* class are not blank; on RESULTS the submission is not null and carries
\* the id of the current assignment.
C39_ViewDataPresent ==
    /\ currentView \in {"SHARE_LINK", "STUDENT_LOGIN", "STUDENT_EXAM", "RESULTS"}
          => assignment # Null
    /\ currentView = "STUDENT_EXAM"
          => /\ studentInfo # Null
             /\ Trim(studentInfo.name) # <<>>
             /\ Trim(studentInfo.className) # <<>>
    /\ currentView = "RESULTS"
          => /\ submission # Null
             /\ submission.assignmentId = assignment.id

\* C39 happens: the results of a student who sent a padded name are shown
\* for an assignment that got the second id
C39_Witness ==
    /\ currentView = "RESULTS"
    /\ assignment # Null
    /\ assignment.id # AssignmentId
    /\ submission # Null
    /\ submission.assignmentId = assignment.id
    /\ submission.studentName # Trim(submission.studentName)

\* C40: for an assignment with at least one question the current question
\* index stays within 0 .. number of questions - 1 whatever next, prev,
\* jumpTo, enter-review and exit-review calls are made, while answering and
\* while reviewing, so the current question always exists.
C40_IndexInRange ==
    Len(questions) >= 1 =>
        /\ 0 <= currentQuestionIndex
        /\ currentQuestionIndex < Len(questions)
        /\ currentQuestionIndex + 1 \in DOMAIN questions

\* C40 happens: the review screen is open on the last index of the longest
\* exam, where next() and a jump past the end are still on offer
C40_Witness ==
    /\ Mounted
    /\ Len(questions) = MaxExamQuestions
    /\ isReviewing
    /\ currentQuestionIndex = Len(questions) - 1
    /\ ENABLED HandleNext
    /\ ENABLED JumpTo(Len(questions))

====
